---------------------------- MODULE Spec2Model ----------------------------
(***************************************************************************)
(* CascadeStudio CAD worker: the operation cache (CacheOp, CheckCache,     *)
(* AddToCache, ComputeHash, stringToHash), the worker state module         *)
(* (workerGlobals.js) and the evaluation session (Evaluate, console.error, *)
(* the deferred error callback).                                           *)
(*                                                                         *)
(* JavaScript strings are sequences of one-character strings.  A JS object *)
(* is a function whose DOMAIN is the set of its own properties; reading a  *)
(* property that is not there gives Undefined.  A kernel shape wrapper     *)
(* (oc.TopoDS_Shape) is a heap cell named by its pointer.                  *)
(***************************************************************************)
EXTENDS Integers, Sequences, FiniteSets, TLC

-----------------------------------------------------------------------------
(* Bounds of the model *)

\* CacheOp invocations in one run of the worker (opNumber is never reset).
MaxOps == 2
\* Deferred callbacks (setTimeout) that may be pending at once.
MaxTimers == 2
\* Evaluate requests in one run of the worker.
MaxSessions == 2
MaxOther == 1

-----------------------------------------------------------------------------
(* JavaScript values *)

Undefined == "undefined"

Range(s) == { s[i] : i \in DOMAIN s }

EmptyObj == << >>

\* obj[key], Undefined when the property is absent
Get(obj, key) == IF key \in DOMAIN obj THEN obj[key] ELSE Undefined

\* obj[key] = val
Put(obj, key, val) == [k \in (DOMAIN obj) \cup {key} |-> IF k = key THEN val ELSE obj[k]]

\* delete obj[key]
Delete(obj, key) == [k \in (DOMAIN obj) \ {key} |-> obj[k]]

\* Printable ASCII, code 32 to 126 (code 96 is spelled out: the lexer rejects it)
Ascii ==
  << " ", "!", "\"", "#", "$", "%", "&", "'", "(", ")", "*", "+", ",", "-", ".", "/",
     "0", "1", "2", "3", "4", "5", "6", "7", "8", "9", ":", ";", "<", "=", ">", "?",
     "@", "A", "B", "C", "D", "E", "F", "G", "H", "I", "J", "K", "L", "M", "N", "O",
     "P", "Q", "R", "S", "T", "U", "V", "W", "X", "Y", "Z", "[", "\\", "]", "^", "_",
     "backtick", "a", "b", "c", "d", "e", "f", "g", "h", "i", "j", "k", "l", "m", "n", "o",
     "p", "q", "r", "s", "t", "u", "v", "w", "x", "y", "z", "{", "|", "}", "~" >>

CharCodeTable == [c \in Range(Ascii) |-> 31 + (CHOOSE i \in DOMAIN Ascii : Ascii[i] = c)]

\* String.prototype.charCodeAt for one character
charCodeAt(c) == CharCodeTable[c]

Digits == <<"0", "1", "2", "3", "4", "5", "6", "7", "8", "9">>

IsDigit(c) == c \in Range(Digits)

RECURSIVE NatToString(_)
NatToString(n) ==
  IF n < 10 THEN <<Digits[n + 1]>>
  ELSE NatToString(n \div 10) \o <<Digits[(n % 10) + 1]>>

\* Number to string, for the integers (a 32-bit hash, a pointer, a dimension)
NumberToString(n) ==
  IF n >= 0 THEN NatToString(n)
  ELSE IF n = -2147483647 - 1
       THEN <<"-", "2", "1", "4", "7", "4", "8", "3", "6", "4", "8">>
       ELSE <<"-">> \o NatToString(0 - n)

\* JSON values: tagged records
Num(n) == [t |-> "num", n |-> n]
Str(s) == [t |-> "str", s |-> s]
Bool(b) == [t |-> "bool", b |-> b]
Arr(items) == [t |-> "arr", items |-> items]
\* props: the object's own enumerable properties in insertion order, <<key, value>>
Obj(props) == [t |-> "obj", props |-> props]

Quote(s) == <<"\"">> \o s \o <<"\"">>

RECURSIVE JSONstringify(_)
RECURSIVE JoinItems(_)
RECURSIVE JoinProps(_)
JoinItems(items) ==
  IF items = << >> THEN << >>
  ELSE JSONstringify(Head(items))
       \o (IF Len(items) > 1 THEN <<",">> \o JoinItems(Tail(items)) ELSE << >>)
JoinProps(props) ==
  IF props = << >> THEN << >>
  ELSE Quote(Head(props)[1]) \o <<":">> \o JSONstringify(Head(props)[2])
       \o (IF Len(props) > 1 THEN <<",">> \o JoinProps(Tail(props)) ELSE << >>)
\* JSON.stringify(v), for strings without characters that need escaping
JSONstringify(v) ==
  CASE v.t = "num" -> NumberToString(v.n)
    [] v.t = "str" -> Quote(v.s)
    [] v.t = "bool" -> IF v.b THEN <<"t", "r", "u", "e">> ELSE <<"f", "a", "l", "s", "e">>
    [] v.t = "arr" -> <<"[">> \o JoinItems(v.items) \o <<"]">>
    [] v.t = "obj" -> <<"{">> \o JoinProps(v.props) \o <<"}">>

-----------------------------------------------------------------------------
(* String utilities of the standard library *)

\* s.substr(n): s without its first n characters
Substr(s, n) == IF n >= Len(s) THEN << >> ELSE SubSeq(s, n + 1, Len(s))

\* whether t occurs in s at (1-based) position i
MatchAt(s, i, t) == i + Len(t) - 1 <= Len(s) /\ SubSeq(s, i, i + Len(t) - 1) = t

\* s.indexOf(t), 0-based, -1 when absent
RECURSIVE IndexFrom(_, _, _)
IndexFrom(s, t, i) ==
  IF i + Len(t) - 1 > Len(s) THEN -1
  ELSE IF MatchAt(s, i, t) THEN i - 1
  ELSE IndexFrom(s, t, i + 1)
IndexOf(s, t) == IndexFrom(s, t, 1)

\* s.includes(t)
Includes(s, t) == IndexOf(s, t) >= 0

FunctionKw == <<"f", "u", "n", "c", "t", "i", "o", "n", " ">>

\* fn.toString() of a declared function, up to its parameter list
FnToString(name) == FunctionKw \o name \o <<"(", ")", " ", "{", "}">>

getCalleeName(fnText) ==
  LET ret1 == Substr(fnText, Len(FunctionKw))
      cut == IndexOf(ret1, <<"(">>)
  IN  IF cut <= 0 THEN << >> ELSE SubSeq(ret1, 1, cut)

sPtr == <<"p", "t", "r">>

PtrKey == <<"\"", "p", "t", "r", "\"", ":">>

\* end (1-based, exclusive) of -?[0-9]* matched greedily from position i
RECURSIVE DigitsEnd(_, _)
DigitsEnd(s, i) == IF i <= Len(s) /\ IsDigit(s[i]) THEN DigitsEnd(s, i + 1) ELSE i
NumberEnd(s, i) == DigitsEnd(s, IF i <= Len(s) /\ s[i] = "-" THEN i + 1 ELSE i)

\* The match of /"ptr":(-?[0-9]*?),/ at position i: the position after it, 0 if none.
\* The lazy digits must reach a comma: with the sign taken, or, backtracking, without.
Regex1End(s, i) ==
  IF ~MatchAt(s, i, PtrKey) THEN 0
  ELSE LET a == i + Len(PtrKey)
           e == NumberEnd(s, a)
       IN  IF e <= Len(s) /\ s[e] = "," THEN e + 1
           ELSE IF a <= Len(s) /\ s[a] = "," THEN a + 1
           ELSE 0

\* The match of /"ptr":(-?[0-9]*)/ at position i: the position after it, 0 if none.
Regex2End(s, i) ==
  IF ~MatchAt(s, i, PtrKey) THEN 0 ELSE NumberEnd(s, i + Len(PtrKey))

\* s.replace(/(\"ptr\"\:(-?[0-9]*?)\,)/g, '')
RECURSIVE ReplaceRegex1(_, _)
ReplaceRegex1(s, i) ==
  IF i > Len(s) THEN << >>
  ELSE IF Regex1End(s, i) > 0 THEN ReplaceRegex1(s, Regex1End(s, i))
  ELSE <<s[i]>> \o ReplaceRegex1(s, i + 1)

\* the second replacement left out
ReplaceRegex2Omitted(s, i) == IF i > Len(s) THEN << >> ELSE SubSeq(s, i, Len(s))

\* s.replace(/(\"ptr\"\:(-?[0-9]*))/g, '')
RECURSIVE ReplaceRegex2(_, _)
ReplaceRegex2(s, i) ==
  IF i > Len(s) THEN << >>
  ELSE IF Regex2End(s, i) > 0 THEN ReplaceRegex2(s, Regex2End(s, i))
  ELSE <<s[i]>> \o ReplaceRegex2(s, i + 1)

\* 32-bit integers as two 16-bit limbs <<hi, lo>>, each in 0..65535
Limb == 65536

ToLimbs(n) == IF n >= 0 THEN <<n \div Limb, n % Limb>>
              ELSE <<(n \div Limb) + Limb, n % Limb>>

\* the signed (two's complement) value of <<hi, lo>>
ToInt32(w) == IF w[1] >= 32768 THEN (w[1] - Limb) * Limb + w[2] ELSE w[1] * Limb + w[2]

\* hash << 4
Shl4(w) == LET lo == w[2] * 16
           IN  <<(w[1] * 16 + lo \div Limb) % Limb, lo % Limb>>

\* hash << 5
Shl5(w) == LET lo == w[2] * 32
           IN  <<(w[1] * 32 + lo \div Limb) % Limb, lo % Limb>>

\* a - b, wrapping
Sub32(a, b) == LET lo == a[2] - b[2]
                   borrow == IF lo < 0 THEN 1 ELSE 0
               IN  <<(a[1] - b[1] - borrow) % Limb, lo % Limb>>

\* a + c for a character code c, wrapping
AddChar32(a, c) == LET lo == a[2] + c
                   IN  <<(a[1] + lo \div Limb) % Limb, lo % Limb>>

\* one round of the loop: hash = ((hash << 5) - hash) + char; hash = hash & hash
HashStep(w, c) == AddChar32(Sub32(Shl5(w), w), charCodeAt(c))

RECURSIVE HashFold(_, _, _)
\* (the test of next[1] only makes the evaluation of each round strict)
HashFold(s, i, w) ==
  IF i > Len(s) THEN w
  ELSE LET next == HashStep(w, s[i])
       IN  IF next[1] >= 0 THEN HashFold(s, i + 1, next) ELSE next

RECURSIVE HashStretches(_, _)
\* the loop over a long string, 48 characters at a time (the same rounds in the
\* same order; only the depth of the evaluation differs)
HashStretches(s, w) ==
  IF Len(s) <= 48 THEN HashFold(s, 1, w)
  ELSE LET next == HashFold(SubSeq(s, 1, 48), 1, w)
       IN  IF next[1] >= 0 THEN HashStretches(SubSeq(s, 49, Len(s)), next) ELSE next

stringToHash(s) == IF Len(s) = 0 THEN 0 ELSE ToInt32(HashStretches(s, <<0, 0>>))

\* the serialized arguments with the pointer fields taken out
SanitizeArgs(args) == ReplaceRegex2(ReplaceRegex1(JSONstringify(args), 1), 1)

\* ComputeHash with raw set: the callee's name followed by the sanitized arguments
ComputeHashRaw(callee, args) == getCalleeName(callee) \o SanitizeArgs(args)

\* whether ComputeHash calls console.error("YOU DONE MESSED UP YOUR REGEX.")
ComputeHashComplains(args) == Includes(SanitizeArgs(args), sPtr)

ComputeHash(callee, args) == stringToHash(ComputeHashRaw(callee, args))

-----------------------------------------------------------------------------
(* The calls the user code of the model makes, and their signatures *)

sBox == <<"B", "o", "x">>
sSphere == <<"S", "p", "h", "e", "r", "e">>
sTranslate == <<"T", "r", "a", "n", "s", "l", "a", "t", "e">>
sText3D == <<"T", "e", "x", "t", "3", "D">>
sConsolas == <<"C", "o", "n", "s", "o", "l", "a", "s">>
\* the default text of Text3D
sHi == <<"H", "i", "!">>
sHash == <<"h", "a", "s", "h">>

\* the arguments object of Box(x, y, z, centered)
BoxArgs(x, y, z, centered) ==
  Obj(<< << <<"x">>, Num(x) >>, << <<"y">>, Num(y) >>, << <<"z">>, Num(z) >>,
         << <<"c", "e", "n", "t", "e", "r", "e", "d">>, Bool(centered) >> >>)

\* the arguments object of Sphere(radius)
SphereArgs(radius) == Obj(<< << <<"r", "a", "d", "i", "u", "s">>, Num(radius) >> >>)

\* the arguments object of Text3D(text, size, height, fontName)
Text3DArgs(text, size, height, fontName) ==
  Obj(<< << <<"t", "e", "x", "t">>, Str(text) >>,
         << <<"s", "i", "z", "e">>, Num(size) >>,
         << <<"h", "e", "i", "g", "h", "t">>, Num(height) >>,
         << <<"f", "o", "n", "t", "N", "a", "m", "e">>, Str(fontName) >> >>)

\* a stamped shape wrapper as JSON.stringify sees it
WrapperValue(p, h) == Obj(<< <<sPtr, Num(p)>>, <<sHash, Num(h)>> >>)

\* the arguments object of Translate(offset, shape): keepOriginal is undefined and
\* JSON.stringify leaves it out
TranslateArgs(offset, shapeValue) ==
  Obj(<< << <<"o", "f", "f", "s", "e", "t">>, Arr(<<Num(offset[1]), Num(offset[2]), Num(offset[3])>>) >>,
         << <<"s", "h", "a", "p", "e">>, shapeValue >> >>)

\* the offset the user code translates by
Up == <<0, 0, 1>>

\* [-x / 2, -y / 2, -z / 2] for even x, y and z
Centering(x, y, z) == << -(x \div 2), -(y \div 2), -(z \div 2) >>

\* the pointers MaxOps operations can hand out: a computed shape and its cached copy each
MaxPtr == 2 * MaxOps

\* the <<callee, arguments>> pairs that can reach CacheOp within n operations
RECURSIVE CallsWithin(_)
CallsWithin(n) ==
  IF n <= 1
  THEN { <<FnToString(sBox), BoxArgs(1, 1, 1, FALSE)>>,
         <<FnToString(sBox), BoxArgs(2, 2, 2, TRUE)>>,
         <<FnToString(sSphere), SphereArgs(1)>>,
         <<FnToString(sText3D), Text3DArgs(sPtr, 36, 0, sConsolas)>>,
         <<FnToString(sText3D), Text3DArgs(sHi, 36, 0, sConsolas)>> }
       \cup { <<FnToString(sTranslate),
                TranslateArgs(offset, Obj(<< <<sPtr, Num(p)>> >>))>> :
              offset \in {Centering(2, 2, 2), Up}, p \in 1..(MaxPtr + 1) }
  ELSE LET prev == CallsWithin(n - 1)
       IN  prev \cup { <<FnToString(sTranslate),
                          TranslateArgs(Up, WrapperValue(p, ComputeHash(c[1], c[2])))>> :
                        c \in prev, p \in 1..MaxPtr }

\* the calls of Translate with an array of one unit box
ArrayCalls ==
  { <<FnToString(sTranslate),
      TranslateArgs(Up, Arr(<< WrapperValue(p, ComputeHash(FnToString(sBox),
                                                           BoxArgs(1, 1, 1, FALSE))) >>))>> :
    p \in 1..MaxPtr }

\* ComputeHash evaluated once for each of these calls
HashTable ==
  [ c \in CallsWithin(MaxOps) |->
      [hash |-> ComputeHash(c[1], c[2]), complains |-> ComputeHashComplains(c[2])] ]

\* and once for each call of Translate with an array
ArrayHashTable ==
  [ c \in ArrayCalls |->
      [hash |-> ComputeHash(c[1], c[2]), complains |-> ComputeHashComplains(c[2])] ]

-----------------------------------------------------------------------------
(* The worker's state *)

VARIABLES
  workerGlobals,      \* the object workerGlobals of workerGlobals.js: property -> value
  argCache,           \* export let argCache: signature -> pointer of the cached wrapper
  GUIState,           \* export let GUIState: control name -> value
  opNumber,           \* export let opNumber
  currentLineNumber,  \* export let currentLineNumber
  currentOp,          \* export let currentOp
  usedHashes,         \* the usedHashes binding the utilities import: signature -> signature
  sceneShapes,        \* export let sceneShapes: sequence of pointers
  heap,               \* the objects: reference -> [hash, stamped, tshape, ptr, cls];
                      \* tshape 0 is no underlying shape, ptr 0 no ptr property, and
                      \* an array of shapes has its items
  pc,                 \* where the worker is: Idle, or inside Evaluate
  worker,             \* the kernel, the dispatcher and the handlers; history of requests
  caught,             \* the exception Evaluate's catch block received, if any
  timers,             \* the callbacks handed to setTimeout, oldest first
  posted,             \* the messages posted since the current request began
  surfaced,           \* the errors thrown out of deferred callbacks (worker.onerror)
  fonts,              \* the fonts that have been loaded
  calls,              \* history: the CacheOp invocations of the current session
  returned,           \* history: every pointer CacheOp has returned
  failed,             \* history: signatures whose last computation failed
  evaluated,          \* history: the number of Evaluate requests received
  hashInput,          \* a callee and two arguments objects handed to ComputeHash
  hashOutput,         \* the signatures ComputeHash gave for them, once computed
  fnInput,            \* the input of a library function that is run on its own
  fnOutput            \* what that function returned, once it has run

vars == << workerGlobals, argCache, GUIState, opNumber, currentLineNumber, currentOp,
           usedHashes, sceneShapes, heap, pc, worker, caught, timers, posted, surfaced,
           fonts, calls, returned, failed, evaluated, hashInput, hashOutput,
           fnInput, fnOutput >>

hashVars == << hashInput, hashOutput >>

fnVars == << fnInput, fnOutput >>

\* the null reference; pointers of live wrappers start at 1
Null == 0

NoException == "none"

(* The module state the library functions work on, threaded as one record *)

Cur == [ argCache |-> argCache, GUIState |-> GUIState, opNumber |-> opNumber,
         currentLineNumber |-> currentLineNumber, currentOp |-> currentOp,
         usedHashes |-> usedHashes, sceneShapes |-> sceneShapes, heap |-> heap,
         timers |-> timers, posted |-> posted, fonts |-> fonts,
         calls |-> calls, returned |-> returned, failed |-> failed ]

Install(st) ==
  /\ argCache' = st.argCache
  /\ GUIState' = st.GUIState
  /\ opNumber' = st.opNumber
  /\ currentLineNumber' = st.currentLineNumber
  /\ currentOp' = st.currentOp
  /\ usedHashes' = st.usedHashes
  /\ sceneShapes' = st.sceneShapes
  /\ heap' = st.heap
  /\ timers' = st.timers
  /\ posted' = st.posted
  /\ fonts' = st.fonts
  /\ calls' = st.calls
  /\ returned' = st.returned
  /\ failed' = st.failed

postMessage(st, msg) == [st EXCEPT !.posted = Append(@, msg)]

setTimeout(st, cb) == [st EXCEPT !.timers = Append(@, cb)]

NoSession == [had |-> FALSE, op |-> << >>, line |-> 0, n |-> 0]

Callback(kind, arg, session) == [kind |-> kind, arg |-> arg, session |-> session]

ResetWorking == [type |-> "resetWorking"]

\* console.error without the notification
consoleErrorQuiet(st, err) == setTimeout(st, Callback("consoleError", err, NoSession))

\* the worker's console.error: the notification now, the rethrow deferred
consoleError(st, err) ==
  setTimeout(postMessage(st, ResetWorking), Callback("consoleError", err, NoSession))

\* the worker's console.log: the log message is posted from a deferred callback
consoleLog(st, message) == setTimeout(st, Callback("log", message, NoSession))

JNull == [t |-> "null"]

JUndefined == [t |-> "undefined"]

NaN == [t |-> "NaN"]

\* a value as a condition
Truthy(v) ==
  CASE v.t \in {"undefined", "null", "NaN"} -> FALSE
    [] v.t = "bool" -> v.b
    [] v.t = "num" -> v.n # 0
    [] v.t = "str" -> v.s # << >>
    [] OTHER -> TRUE

Progress(n, opType) ==
  [type |-> "Progress", payload |-> [opNumber |-> n, opType |-> opType]]

(* Shape wrappers *)

NextPtr(st) == Cardinality(DOMAIN st.heap) + 1

\* a shape the kernel has just built: a wrapper of a new underlying shape
KernelShape(st) ==
  [st EXCEPT !.heap = Put(@, NextPtr(st),
                          [hash |-> 0, stamped |-> FALSE, tshape |-> NextPtr(st),
                           ptr |-> NextPtr(st), cls |-> "TopoDS_Shape"])]

\* new oc.TopoDS_Shape(src): a new wrapper of the same underlying shape
TopoDS_Shape(st, src) ==
  [st EXCEPT !.heap = Put(@, NextPtr(st),
                          [hash |-> 0, stamped |-> FALSE, tshape |-> st.heap[src].tshape,
                           ptr |-> NextPtr(st), cls |-> "TopoDS_Shape"])]

\* shape.hash = h
SetHash(st, p, h) ==
  [st EXCEPT !.heap = Put(@, p, [st.heap[p] EXCEPT !.hash = h, !.stamped = TRUE])]

\* a JavaScript array of shape wrappers: an object with no ptr and, so far, no hash
NewArray(st, items) ==
  [st EXCEPT !.heap = Put(@, NextPtr(st),
                          [hash |-> 0, stamped |-> FALSE, tshape |-> 0, ptr |-> 0,
                           cls |-> "Array", items |-> items])]

\* Array.isArray(item), the first test of isArrayLike
isArrayLike(st, p) == st.heap[p].cls = "Array"

\* el.ptr: the kernel handle of a wrapper, undefined (0) on an array
PtrOf(st, p) == st.heap[p].ptr

\* a wrapper as JSON.stringify sees it: ptr, then hash once it has been stamped
ShapeValue(st, p) ==
  IF st.heap[p].stamped THEN WrapperValue(st.heap[p].ptr, st.heap[p].hash)
  ELSE Obj(<< <<sPtr, Num(st.heap[p].ptr)>> >>)

-----------------------------------------------------------------------------
(* The operation cache *)

CacheKey == "Cache?"

\* GUIState["Cache?"] as a condition
CachingOn(gui) == CacheKey \in DOMAIN gui /\ gui[CacheKey] = TRUE

CheckCache(cache, hash) == IF hash \in DOMAIN cache THEN cache[hash] ELSE Null

\* the copy made but not stored under its signature
AddToCacheUnkeyed(st, hash, shape) == SetHash(TopoDS_Shape(st, shape), NextPtr(st), hash)

\* the computed shape itself stored, not a copy of it
AddToCacheSameInstance(st, hash, shape) ==
  [SetHash(st, shape, hash) EXCEPT !.argCache = Put(@, hash, shape)]

AddToCache(st, hash, shape) ==
  LET cacheShape == NextPtr(st)
      s1 == SetHash(TopoDS_Shape(st, shape), cacheShape, hash)
  IN  [s1 EXCEPT !.argCache = Put(@, hash, cacheShape)]

\* the signature not recorded
UseHashSkipped(st, curHash) == st

\* usedHashes[curHash] = curHash
UseHash(st, curHash) == [st EXCEPT !.usedHashes = Put(@, curHash, curHash)]

YouDoneMessedUp == <<"Y", "O", "U">>

\* CacheOp up to its test of the cache; computed is what ComputeHash gave for the call
CacheOpEnterWith(st, callee, args, line, computed) ==
  LET name == getCalleeName(callee)
      s1 == [st EXCEPT !.currentOp = name, !.currentLineNumber = line]
      s2 == postMessage(s1, Progress(Num(s1.opNumber), Str(name)))
      s3 == [s2 EXCEPT !.opNumber = @ + 1]
      curHash == computed.hash
      s4 == IF computed.complains THEN consoleError(s3, YouDoneMessedUp) ELSE s3
      s5 == UseHash(s4, curHash)
  IN  [ st |-> s5, curHash |-> curHash, check |-> CheckCache(s5.argCache, curHash),
        op |-> name, args |-> args, line |-> line, complained |-> computed.complains,
        usedAtCheck |-> curHash \in DOMAIN s5.usedHashes ]

CacheOpEnter(st, callee, args, line) ==
  CacheOpEnterWith(st, callee, args, line, HashTable[<<callee, args>>])

\* check && GUIState["Cache?"]
IsHit(en) == en.check # Null /\ CachingOn(en.st.GUIState)

\* history: one CacheOp invocation; s0 is the state its branch found, s1 the state it left
CallRecord(en, s0, s1, computed, threw, ret) ==
  [ op |-> en.op, args |-> en.args, line |-> en.line, sig |-> en.curHash,
    hit |-> IsHit(en), cacheOn |-> CachingOn(en.st.GUIState),
    usedAtCheck |-> en.usedAtCheck, entry |-> en.check, complained |-> en.complained,
    computed |-> computed, threw |-> threw, ret |-> ret,
    hash |-> IF ret = Null THEN 0 ELSE s1.heap[ret].hash,
    cacheBefore |-> s0.argCache, cacheAfter |-> s1.argCache,
    doneAt |-> IF threw THEN 0 ELSE Len(s1.posted) ]

Thrown(st, e) == [st |-> st, ret |-> Null, threw |-> TRUE, e |-> e]

Returned(st, ret) == [st |-> st, ret |-> ret, threw |-> FALSE, e |-> NoException]

\* a hit that returns without posting its second Progress message
CacheOpHitSilent(en) ==
  LET toReturn == NextPtr(en.st)
      s1 == TopoDS_Shape(en.st, en.check)
      s2 == SetHash(s1, toReturn, s1.heap[en.check].hash)
      s4 == [s2 EXCEPT !.calls = Append(@, CallRecord(en, en.st, s2, FALSE, FALSE, toReturn)),
                       !.returned = @ \cup {toReturn}]
  IN  Returned(s4, toReturn)

\* the branch of CacheOp that serves the call from the cache
CacheOpHit(en) ==
  LET toReturn == NextPtr(en.st)
      s1 == TopoDS_Shape(en.st, en.check)
      s2 == SetHash(s1, toReturn, s1.heap[en.check].hash)
      s3 == postMessage(s2, Progress(Num(s2.opNumber), JNull))
      s4 == [s3 EXCEPT !.calls = Append(@, CallRecord(en, en.st, s3, FALSE, FALSE, toReturn)),
                       !.returned = @ \cup {toReturn}]
  IN  Returned(s4, toReturn)

\* the entry installed whatever cacheMiss() did
CacheOpMissInstallsAlways(en, m) ==
  LET s0 == [m.st EXCEPT !.argCache = Put(@, en.curHash, m.ret)]
  IN  IF m.threw \/ m.ret = Null
      THEN Thrown([s0 EXCEPT !.calls = Append(@, CallRecord(en, m.st, s0, TRUE, TRUE, Null)),
                             !.failed = @ \cup {en.curHash}],
                  IF m.threw THEN m.e ELSE "TypeError")
      ELSE LET s1 == SetHash(s0, m.ret, en.curHash)
               s3 == postMessage(s1, Progress(Num(s1.opNumber), JNull))
               s4 == [s3 EXCEPT !.calls = Append(@, CallRecord(en, m.st, s3, TRUE, FALSE, m.ret)),
                                !.returned = @ \cup {m.ret},
                                !.failed = @ \ {en.curHash}]
           IN  Returned(s4, m.ret)

\* the computed shape stored whatever GUIState["Cache?"] says
CacheOpMissStoresRegardless(en, m) ==
  IF m.threw \/ m.ret = Null
  THEN Thrown([m.st EXCEPT !.calls = Append(@, CallRecord(en, m.st, m.st, TRUE, TRUE, Null)),
                           !.failed = @ \cup {en.curHash}],
              IF m.threw THEN m.e ELSE "TypeError")
  ELSE LET s1 == SetHash(m.st, m.ret, en.curHash)
           s2 == AddToCache(s1, en.curHash, m.ret)
           s3 == postMessage(s2, Progress(Num(s2.opNumber), JNull))
           s4 == [s3 EXCEPT !.calls = Append(@, CallRecord(en, m.st, s3, TRUE, FALSE, m.ret)),
                            !.returned = @ \cup {m.ret},
                            !.failed = @ \ {en.curHash}]
       IN  Returned(s4, m.ret)

\* the branch of CacheOp that computes; m is what cacheMiss() did
CacheOpMiss(en, m) ==
  IF m.threw
  THEN Thrown([m.st EXCEPT !.calls = Append(@, CallRecord(en, m.st, m.st, TRUE, TRUE, Null)),
                           !.failed = @ \cup {en.curHash}], m.e)
  ELSE IF m.ret = Null
  THEN \* toReturn.hash = curHash on undefined
       Thrown([m.st EXCEPT !.calls = Append(@, CallRecord(en, m.st, m.st, TRUE, TRUE, Null)),
                           !.failed = @ \cup {en.curHash}], "TypeError")
  ELSE LET s1 == SetHash(m.st, m.ret, en.curHash)
           s2 == IF CachingOn(s1.GUIState) THEN AddToCache(s1, en.curHash, m.ret) ELSE s1
           s3 == postMessage(s2, Progress(Num(s2.opNumber), JNull))
           s4 == [s3 EXCEPT !.calls = Append(@, CallRecord(en, m.st, s3, TRUE, FALSE, m.ret)),
                            !.returned = @ \cup {m.ret},
                            !.failed = @ \ {en.curHash}]
       IN  Returned(s4, m.ret)

\* CacheOp from its test of the cache on
CacheOp(en, m) == IF IsHit(en) THEN CacheOpHit(en) ELSE CacheOpMiss(en, m)

-----------------------------------------------------------------------------
(* The standard library functions the user code calls *)

\* a kernel construction: the new shape, or the kernel's exception
KernelMake(st, ok) ==
  IF ok THEN Returned(KernelShape(st), NextPtr(st)) ELSE Thrown(st, "kernel")

\* sceneShapes.push(shape) after a CacheOp that returned
PushResult(r) ==
  IF r.threw THEN r ELSE Returned([r.st EXCEPT !.sceneShapes = Append(@, r.ret)], r.ret)

\* a filter that keeps an element only when both its hash and its ptr differ
RemoveFromSceneShapesEither(st, objectToRemove) ==
  LET Keep(el) == /\ \/ st.heap[el].stamped # st.heap[objectToRemove].stamped
                     \/ st.heap[el].hash # st.heap[objectToRemove].hash
                  /\ PtrOf(st, el) # PtrOf(st, objectToRemove)
  IN  [st EXCEPT !.sceneShapes = SelectSeq(@, Keep)]

\* el.hash !== objectToRemove.hash || el.ptr !== objectToRemove.ptr
RemoveFromSceneShapes(st, objectToRemove) ==
  LET Keep(el) == \/ st.heap[el].stamped # st.heap[objectToRemove].stamped
                  \/ st.heap[el].hash # st.heap[objectToRemove].hash
                  \/ PtrOf(st, el) # PtrOf(st, objectToRemove)
  IN  [st EXCEPT !.sceneShapes = SelectSeq(@, Keep)]

\* Translate(offset, shape) for one shape, keepOriginal not given
Translate(st, offset, shape, line, ok) ==
  LET args == TranslateArgs(offset, ShapeValue(st, shape))
      en == CacheOpEnter(st, FnToString(sTranslate), args, line)
      r == CacheOp(en, KernelMake(en.st, ok))
  IN  IF r.threw THEN r
      ELSE PushResult(Returned(RemoveFromSceneShapes(r.st, shape), r.ret))

\* Rotate(axis, 0, shape), keepOriginal not given: degrees === 0 skips CacheOp, and
\* the result is a new wrapper of the shape
RotateZero(st, shape) ==
  LET rotated == NextPtr(st)
      s1 == TopoDS_Shape(st, shape)
  IN  PushResult(Returned(RemoveFromSceneShapes(s1, shape), rotated))

\* the wrappers of an array as JSON.stringify sees them
RECURSIVE ShapeValues(_, _)
ShapeValues(st, shapes) ==
  IF shapes = << >> THEN << >>
  ELSE <<ShapeValue(st, Head(shapes))>> \o ShapeValues(st, Tail(shapes))

\* the loop of Translate's cacheMiss over an array: newTrans.push(... shape[i].Moved(...))
RECURSIVE MoveEach(_, _, _, _)
MoveEach(st, shapes, newTrans, ok) ==
  IF shapes = << >> THEN Returned(NewArray(st, newTrans), NextPtr(st))
  ELSE LET moved == KernelMake(st, ok)
       IN  IF moved.threw THEN moved
           ELSE MoveEach(moved.st, Tail(shapes), Append(newTrans, moved.ret), ok)

\* the cacheMiss of Translate for an array: undefined when the array is empty
TranslateArrayMiss(st, shapes, ok) ==
  IF Len(shapes) >= 1 THEN MoveEach(st, shapes, << >>, ok) ELSE Returned(st, Null)

\* Translate(offset, [shapes]), keepOriginal not given, caching off: the array itself
\* is what RemoveFromSceneShapes is given and the array of moved shapes is what is pushed
TranslateArray(st, offset, shapes, line, ok) ==
  LET shape == NextPtr(st)
      s0 == NewArray(st, shapes)
      args == TranslateArgs(offset, Arr(ShapeValues(s0, shapes)))
      en == CacheOpEnterWith(s0, FnToString(sTranslate), args, line,
                             ArrayHashTable[<<FnToString(sTranslate), args>>])
      r == CacheOp(en, TranslateArrayMiss(en.st, shapes, ok))
  IN  IF r.threw THEN r
      ELSE PushResult(Returned(RemoveFromSceneShapes(r.st, shape), r.ret))

\* the cacheMiss of Box: the box, moved by Translate when centered
BoxMiss(st, x, y, z, centered, line, ok) ==
  LET box == KernelMake(st, ok)
  IN  IF centered /\ ~box.threw
      THEN Translate(box.st, Centering(x, y, z), box.ret, line, ok)
      ELSE box

Box(st, x, y, z, centered, line, ok) ==
  LET args == BoxArgs(x, y, z, centered)
      en == CacheOpEnter(st, FnToString(sBox), args, line)
  IN  PushResult(CacheOp(en, BoxMiss(en.st, x, y, z, centered, line, ok)))

Sphere(st, radius, line, ok) ==
  LET args == SphereArgs(radius)
      en == CacheOpEnter(st, FnToString(sSphere), args, line)
  IN  PushResult(CacheOp(en, KernelMake(en.st, ok)))

FontNotLoaded == <<"F", "o", "n", "t">>

\* the cacheMiss of Text3D with height 0: the last face of the text
Text3DMiss(st, fontName, ok) ==
  IF fontName \notin st.fonts
  THEN Returned(consoleLog([st EXCEPT !.argCache = EmptyObj], FontNotLoaded), Null)
  ELSE KernelMake(st, ok)

\* Text3D(text, 36, 0): fontName at its default
Text3D(st, text, line, ok) ==
  LET args == Text3DArgs(text, 36, 0, sConsolas)
      en == CacheOpEnter(st, FnToString(sText3D), args, line)
  IN  PushResult(CacheOp(en, Text3DMiss(en.st, sConsolas, ok)))

Checkbox(st, name, defaultValue) ==
  LET s1 == IF name \in DOMAIN st.GUIState THEN st
            ELSE [st EXCEPT !.GUIState = Put(@, name, defaultValue)]
  IN  postMessage(s1, [type |-> "addCheckbox",
                       payload |-> [name |-> name, default |-> defaultValue]])

-----------------------------------------------------------------------------
(* The worker: Evaluate, the deferred callbacks, the font preload *)

\* the usedHashes export of the state module the utilities import
ImportedUsedHashes == EmptyObj

\* messageHandlers once the worker module has been evaluated
Handlers == {"Evaluate", "combineAndRenderShapes"}

\* a handler has not returned
NoResponse == [t |-> "none"]

\* the dispatcher installed while the kernel is still loading
ModuleLoadedListening ==
  [ oc |-> FALSE, onmessage |-> TRUE, startups |-> 0, handlers |-> Handlers,
    last |-> "none", response |-> NoResponse, other |-> 0 ]

\* the worker module evaluated: the handlers registered, the kernel loading, no
\* onmessage yet; last, response and other
\* are history: the last request dispatched, what its handler returned, and the number
\* of requests other than Evaluate
ModuleLoaded ==
  [ oc |-> FALSE, onmessage |-> FALSE, startups |-> 0, handlers |-> Handlers,
    last |-> "none", response |-> NoResponse, other |-> 0 ]

WorkerInit ==
  /\ workerGlobals = Put(EmptyObj, "usedHashes", EmptyObj)
  /\ argCache = EmptyObj
  /\ GUIState = EmptyObj
  /\ opNumber = 0
  /\ currentLineNumber = 0
  /\ currentOp = << >>
  /\ usedHashes = ImportedUsedHashes
  /\ sceneShapes = << >>
  /\ heap = EmptyObj
  /\ pc = "Idle"
  /\ worker = ModuleLoaded
  /\ caught = NoException
  /\ timers = << >>
  /\ posted = << >>
  /\ surfaced = [kind |-> "none", message |-> << >>, e |-> NoException, session |-> NoSession]
  /\ fonts = {}
  /\ calls = << >>
  /\ returned = {}
  /\ failed = {}
  /\ evaluated = 0

NoHashInput == [callee |-> << >>, a |-> JNull, b |-> JNull]

\* no function is run on its own
NoFn == [fn |-> "none"]

Init ==
  /\ WorkerInit
  /\ hashInput = NoHashInput /\ hashOutput = << >>
  /\ fnInput = NoFn /\ fnOutput = NoFn

\* the GUI states a request may carry
Payloads == { EmptyObj, Put(EmptyObj, CacheKey, TRUE) }

StartupCallback == [type |-> "startupCallback"]

\* initOpenCascade().then(...): the kernel is stored, onmessage installed, and
\* startupCallback posted, in one callback
InitOpenCascadeThen ==
  /\ pc = "Idle"
  /\ ~worker.oc
  /\ worker' = [worker EXCEPT !.oc = TRUE, !.onmessage = TRUE, !.startups = @ + 1]
  /\ posted' = Append(posted, StartupCallback)
  /\ UNCHANGED << workerGlobals, argCache, GUIState, opNumber, currentLineNumber, currentOp,
                  usedHashes, sceneShapes, heap, pc, caught, timers, surfaced, fonts,
                  calls, returned, failed, evaluated, hashVars, fnVars >>

\* a message that arrives while the worker has no onmessage reaches no handler
MessageUnheard ==
  /\ pc = "Idle"
  /\ ~worker.onmessage
  /\ UNCHANGED vars

\* a message dispatched while a handler is still running
ReceivesWhileRunning == worker.onmessage

\* the worker is between tasks and onmessage is installed: a message is dispatched
Receives == pc = "Idle" /\ worker.onmessage

\* if (response) { postMessage({ "type": e.data.type, payload: response }) }
ReplyAlways(st, type, response) == postMessage(st, [type |-> type, payload |-> response])

Reply(st, type, response) ==
  IF Truthy(response) THEN postMessage(st, [type |-> type, payload |-> response]) ELSE st

\* the message types the host may send that have no handler
UnregisteredTypes == {"unregistered"}

NotAFunction == <<"n", "o", "t", " ", "a", " ", "f", "u", "n", "c", "t", "i", "o", "n">>

\* onmessage for a type without a handler: messageHandlers[type] is undefined and
\* calling it throws out of onmessage
DispatchUnregistered(type) ==
  /\ Receives
  /\ type \notin worker.handlers
  /\ worker.other < MaxOther
  /\ posted' = << >>
  /\ surfaced' = [kind |-> "dispatchError", message |-> NotAFunction,
                  e |-> "TypeError", session |-> NoSession]
  /\ worker' = [worker EXCEPT !.last = type, !.response = NoResponse, !.other = @ + 1]
  /\ UNCHANGED << workerGlobals, argCache, GUIState, opNumber, currentLineNumber, currentOp,
                  usedHashes, sceneShapes, heap, pc, caught, timers, fonts,
                  calls, returned, failed, evaluated, hashVars, fnVars >>

\* Evaluate up to the call of runCode
EvaluateBegin(payloadGUIState) ==
  /\ Receives
  /\ "Evaluate" \in worker.handlers
  /\ worker' = [worker EXCEPT !.last = "Evaluate", !.response = NoResponse]
  /\ workerGlobals' = Put(Put(workerGlobals, "opNumber", Num(0)), "GUIState", payloadGUIState)
  /\ pc' = "Running"
  /\ caught' = NoException
  /\ posted' = << >>
  /\ calls' = << >>
  /\ evaluated < MaxSessions
  /\ evaluated' = evaluated + 1
  /\ UNCHANGED << argCache, GUIState, opNumber, currentLineNumber, currentOp, usedHashes,
                  sceneShapes, heap, timers, surfaced, fonts, returned, failed, hashVars, fnVars >>

\* history: what the session's last CacheOp invocation recorded
SessionOf(st) ==
  IF st.calls = << >> THEN [NoSession EXCEPT !.n = evaluated]
  ELSE [had |-> TRUE, op |-> st.calls[Len(st.calls)].op,
        line |-> st.calls[Len(st.calls)].line, n |-> evaluated]

\* the catch block of Evaluate
Catch(st, e) == setTimeout(st, Callback("evalError", e, SessionOf(st)))

\* one statement of the user code: it returns, or its exception reaches Evaluate
Statement(r) ==
  LET st == IF r.threw THEN Catch(r.st, r.e) ELSE r.st
  IN  /\ pc = "Running"
      /\ Len(st.timers) <= MaxTimers
      /\ Install(st)
      /\ pc' = IF r.threw THEN "FinallyPost" ELSE "Running"
      /\ caught' = r.e
      /\ UNCHANGED << workerGlobals, surfaced, evaluated, worker, hashVars, fnVars >>

\* the user code has one library call on each line: the line of the next call
Line == Len(calls) + 1

UserBox(ok) == opNumber < MaxOps /\ Statement(Box(Cur, 1, 1, 1, FALSE, Line, ok))

\* Box(2, 2, 2, true): two operations, unless it is served from the cache
UserBoxCentered(ok) ==
  /\ opNumber < MaxOps
  /\ \/ opNumber < MaxOps - 1
     \/ IsHit(CacheOpEnter(Cur, FnToString(sBox), BoxArgs(2, 2, 2, TRUE), Line))
  /\ Statement(Box(Cur, 2, 2, 2, TRUE, Line, ok))

UserSphere(ok) == opNumber < MaxOps /\ Statement(Sphere(Cur, 1, Line, ok))

UserText3D(ok) == opNumber < MaxOps /\ Statement(Text3D(Cur, sPtr, Line, ok))

\* Text3D("Hi!", 36, 0)
UserText3DDefault(ok) == opNumber < MaxOps /\ Statement(Text3D(Cur, sHi, Line, ok))

UserTranslate(shape, ok) ==
  /\ opNumber < MaxOps
  /\ shape \in Range(sceneShapes)
  /\ Statement(Translate(Cur, Up, shape, Line, ok))

\* Translate([0, 0, 1], [shape]) on a shape of the scene, while caching is off
UserTranslateArray(shape, ok) ==
  /\ opNumber < MaxOps
  /\ shape \in Range(sceneShapes)
  /\ ~isArrayLike(Cur, shape)
  /\ ~CachingOn(GUIState)
  /\ Statement(TranslateArray(Cur, Up, <<shape>>, Line, ok))

\* Rotate([0, 0, 1], 0, shape) on a shape of the scene, while the heap has room
UserRotateZero(shape) ==
  /\ shape \in Range(sceneShapes)
  /\ NextPtr(Cur) <= MaxPtr
  /\ Statement(RotateZero(Cur, shape))

\* Checkbox("Cache?", true), once in a session
UserCheckbox ==
  /\ \A i \in DOMAIN posted : posted[i].type # "addCheckbox"
  /\ Statement(Returned(Checkbox(Cur, CacheKey, TRUE), Null))

\* the user code throws outside the library
UserThrows == Statement(Thrown(Cur, "user"))

\* the user code runs to its end
UserReturns ==
  /\ pc = "Running"
  /\ pc' = "FinallyPost"
  /\ UNCHANGED << workerGlobals, argCache, GUIState, opNumber, currentLineNumber, currentOp,
                  usedHashes, sceneShapes, heap, caught, timers, posted, surfaced, fonts,
                  calls, returned, failed, evaluated, worker, hashVars, fnVars >>

\* finally: postMessage({ type: "resetWorking" })
FinallyPost ==
  /\ pc = "FinallyPost"
  /\ posted' = Append(posted, ResetWorking)
  /\ pc' = "FinallySweep"
  /\ UNCHANGED << workerGlobals, argCache, GUIState, opNumber, currentLineNumber, currentOp,
                  usedHashes, sceneShapes, heap, caught, timers, surfaced, fonts,
                  calls, returned, failed, evaluated, worker, hashVars, fnVars >>

\* the entries of cache whose key used has
SweepCache(cache, used) == [h \in (DOMAIN cache) \cap (DOMAIN used) |-> cache[h]]

\* for (let hash in workerGlobals.argCache) ...: no iteration when the property is absent
Sweep(wg) ==
  IF "argCache" \in DOMAIN wg
  THEN Put(wg, "argCache", SweepCache(wg["argCache"], wg["usedHashes"]))
  ELSE wg

\* finally: the loop over workerGlobals.argCache
FinallySweep ==
  /\ pc = "FinallySweep"
  /\ workerGlobals' = Sweep(workerGlobals)
  /\ pc' = "FinallyClear"
  /\ UNCHANGED << argCache, GUIState, opNumber, currentLineNumber, currentOp, usedHashes,
                  sceneShapes, heap, caught, timers, posted, surfaced, fonts,
                  calls, returned, failed, evaluated, worker, hashVars, fnVars >>

\* finally: workerGlobals.usedHashes = {}; Evaluate returns nothing to onmessage
FinallyClear ==
  /\ pc = "FinallyClear"
  /\ workerGlobals' = Put(workerGlobals, "usedHashes", EmptyObj)
  /\ pc' = "Idle"
  /\ posted' = Reply(Cur, "Evaluate", JUndefined).posted
  /\ worker' = [worker EXCEPT !.response = JUndefined]
  /\ UNCHANGED << argCache, GUIState, opNumber, currentLineNumber, currentOp, usedHashes,
                  sceneShapes, heap, caught, timers, surfaced, fonts,
                  calls, returned, failed, evaluated, hashVars, fnVars >>

\* workerGlobals.opNumber++: the value the expression has, and the property afterwards
PostIncrement(wg, key) ==
  IF key \in DOMAIN wg /\ wg[key].t = "num"
  THEN [value |-> wg[key], wg |-> Put(wg, key, Num(wg[key].n + 1))]
  ELSE [value |-> NaN, wg |-> Put(wg, key, NaN)]

\* workerGlobals.opNumber as the last Progress message reads it
ReadOpNumber(wg) == IF "opNumber" \in DOMAIN wg THEN wg["opNumber"] ELSE JUndefined

sCombining == <<"C", "o", "m", "b", "i", "n", "i", "n", "g", " ", "S", "h", "a", "p", "e", "s">>
sTriangulating == <<"T", "r", "i", "a", "n", "g", "u", "l", "a", "t", "i", "n", "g", " ",
                    "F", "a", "c", "e", "s">>
NoSceneShapes == <<"T", "h", "e", "r", "e", " ", "w", "e", "r", "e", " ", "n", "o">>

\* ShapeToMesh(currentShape, ...): the faces and edges of the shapes, or the
\* tessellator's exception
ShapeToMesh(shapes, ok) ==
  IF ok THEN [threw |-> FALSE,
              value |-> Arr(<< Arr([i \in DOMAIN shapes |-> Num(i)]), Arr(<< >>) >>)]
  ELSE [threw |-> TRUE, value |-> JUndefined]

\* a reset that empties the usage set along with the accumulator
resetSceneShapesAndUsage(st) == [st EXCEPT !.sceneShapes = << >>, !.usedHashes = EmptyObj]

resetSceneShapes(st) == [st EXCEPT !.sceneShapes = << >>]

\* the underlying shapes of the accumulators that are checked on their own: their
\* edges and faces are given by SharedEdges and SharedFaces
SharedShapes == {101, 102}

\* edge.HashCode(100000000), in the order TopExp_Explorer visits the edges: shape
\* 101 has an edge twice, shape 102 shares the second edge of 101
SharedEdges(t) ==
  IF t = 101 THEN << <<101, 1>>, <<101, 2>>, <<101, 1>> >>
  ELSE << <<101, 2>>, <<102, 1>> >>

\* face.HashCode(100000000), in the order of the explorer: 102 has the face of 101 second
SharedFaces(t) ==
  IF t = 101 THEN << <<101, 1>> >>
  ELSE << <<102, 1>>, <<101, 1>> >>

\* a box of the kernel: six faces of four edges, each edge on two faces
BoxEdgeCount == 12
BoxFaceCount == 6

\* the edges of a shape as the explorer visits them; a shape the kernel built here
\* is a box or a moved box
EdgeVisits(t) ==
  IF t \in SharedShapes THEN SharedEdges(t)
  ELSE [i \in 1..(2 * BoxEdgeCount) |-> <<t, ((i - 1) % BoxEdgeCount) + 1>>]

FaceVisits(t) ==
  IF t \in SharedShapes THEN SharedFaces(t)
  ELSE [i \in 1..BoxFaceCount |-> <<t, i>>]

\* the loop of ForEachEdge: an edge hash gets the next index when it is new
RECURSIVE ForEachEdgeLoop(_, _, _)
ForEachEdgeLoop(visits, edgeHashes, edgeIndex) ==
  IF visits = << >> THEN edgeHashes
  ELSE IF Head(visits) \in DOMAIN edgeHashes
  THEN ForEachEdgeLoop(Tail(visits), edgeHashes, edgeIndex)
  ELSE ForEachEdgeLoop(Tail(visits), Put(edgeHashes, Head(visits), edgeIndex), edgeIndex + 1)

\* the underlying shapes there can be: an operation allocates three objects at most
TShapes == 1..(3 * MaxOps) \cup SharedShapes

\* ForEachEdgeLoop evaluated once for each underlying shape
EdgeTable == [t \in TShapes |-> ForEachEdgeLoop(EdgeVisits(t), EmptyObj, 0)]

\* ForEachEdge(shape, callback) with the empty callback: the edge hashes it returns
ForEachEdge(st, shape) == EdgeTable[st.heap[shape].tshape]

\* Object.assign(target, source)
ObjectAssign(target, source) ==
  [k \in (DOMAIN target) \cup (DOMAIN source) |->
     IF k \in DOMAIN source THEN source[k] ELSE target[k]]

\* ForEachFace(shape, (index, face) => { fullShapeFaceHashes[face.HashCode(...)] = index; })
RECURSIVE ForEachFaceLoop(_, _, _)
ForEachFaceLoop(visits, fullShapeFaceHashes, face_index) ==
  IF visits = << >> THEN fullShapeFaceHashes
  ELSE ForEachFaceLoop(Tail(visits), Put(fullShapeFaceHashes, Head(visits), face_index),
                       face_index + 1)

ForEachFace(st, shape, fullShapeFaceHashes) ==
  ForEachFaceLoop(FaceVisits(st.heap[shape].tshape), fullShapeFaceHashes, 0)

sNullShape == <<"N", "u", "l", "l", " ", "S", "h", "a", "p", "e">>
sNonShape == <<"N", "o", "n", "-", "S", "h", "a", "p", "e">>
sStringified == <<"{", "}">>

\* !sceneShapes[shapeInd] || !sceneShapes[shapeInd].IsNull || sceneShapes[shapeInd].IsNull()
IsNullEntry(st, el) ==
  \/ el = Null
  \/ st.heap[el].cls \notin {"TopoDS_Shape", "Handle"}
  \/ st.heap[el].tshape = 0

\* !sceneShapes[shapeInd].ShapeType
IsNonShapeEntry(st, el) == st.heap[el].cls # "TopoDS_Shape"

\* nothing accumulated yet: currentShape after MakeCompound, and the two hash objects
NothingAccumulated(st) ==
  [st |-> st, currentShape |-> << >>, fullShapeEdgeHashes |-> EmptyObj,
   fullShapeFaceHashes |-> EmptyObj]

\* the loop that stops at the first entry it cannot add
RECURSIVE AddShapesUntilMalformed(_, _)
AddShapesUntilMalformed(acc, shapes) ==
  IF shapes = << >> THEN acc
  ELSE LET el == Head(shapes)
       IN  IF IsNullEntry(acc.st, el)
           THEN [acc EXCEPT !.st = consoleError(@, sNullShape)]
           ELSE IF IsNonShapeEntry(acc.st, el)
           THEN [acc EXCEPT !.st = consoleError(consoleError(@, sNonShape), sStringified)]
           ELSE AddShapesUntilMalformed(
                  [acc EXCEPT !.fullShapeEdgeHashes = ObjectAssign(@, ForEachEdge(acc.st, el)),
                              !.fullShapeFaceHashes = ForEachFace(acc.st, el, @),
                              !.currentShape = Append(@, el)],
                  Tail(shapes))

\* for (let shapeInd = 0; shapeInd < sceneShapes.length; shapeInd++) ...
RECURSIVE AddShapes(_, _)
AddShapes(acc, shapes) ==
  IF shapes = << >> THEN acc
  ELSE LET el == Head(shapes)
       IN  IF IsNullEntry(acc.st, el)
           THEN AddShapes([acc EXCEPT !.st = consoleError(@, sNullShape)], Tail(shapes))
           ELSE IF IsNonShapeEntry(acc.st, el)
           THEN AddShapes([acc EXCEPT !.st = consoleError(consoleError(@, sNonShape),
                                                          sStringified)],
                          Tail(shapes))
           ELSE AddShapes(
                  [acc EXCEPT !.fullShapeEdgeHashes = ObjectAssign(@, ForEachEdge(acc.st, el)),
                              !.fullShapeFaceHashes = ForEachFace(acc.st, el, @),
                              !.currentShape = Append(@, el)],
                  Tail(shapes))

\* what one pass accumulated from the accumulator it found, and whether it returned
\* the faces and edges
PassRecord(acc, scene, completed) ==
  [ scene |-> scene, currentShape |-> acc.currentShape,
    edges |-> acc.fullShapeEdgeHashes, faces |-> acc.fullShapeFaceHashes,
    completed |-> completed ]

\* the accumulator emptied before the tessellator is called
combineAndRenderShapesResetsFirst(st, wg, ok) ==
  LET i1 == PostIncrement(wg, "opNumber")
      s1 == postMessage(st, Progress(i1.value, Str(sCombining)))
  IN  IF Len(s1.sceneShapes) > 0
      THEN LET acc == AddShapes(NothingAccumulated(s1), s1.sceneShapes)
               i2 == PostIncrement(i1.wg, "opNumber")
               s2 == postMessage(acc.st, Progress(i2.value, Str(sTriangulating)))
               s3 == resetSceneShapes(s2)
               facesAndEdges == ShapeToMesh(acc.currentShape, ok)
           IN  IF facesAndEdges.threw
               THEN [st |-> s3, wg |-> i2.wg, threw |-> TRUE, response |-> NoResponse,
                     pass |-> PassRecord(acc, s1.sceneShapes, FALSE)]
               ELSE [st |-> postMessage(s3, Progress(ReadOpNumber(i2.wg), Str(<< >>))),
                     wg |-> i2.wg, threw |-> FALSE, response |-> facesAndEdges.value,
                     pass |-> PassRecord(acc, s1.sceneShapes, TRUE)]
      ELSE LET s2 == consoleError(s1, NoSceneShapes)
           IN  [st |-> postMessage(s2, Progress(ReadOpNumber(i1.wg), Str(<< >>))),
                wg |-> i1.wg, threw |-> FALSE, response |-> JUndefined,
                pass |-> PassRecord(NothingAccumulated(s1), s1.sceneShapes, FALSE)]

\* combineAndRenderShapes(payload); wg is workerGlobals
combineAndRenderShapes(st, wg, ok) ==
  LET i1 == PostIncrement(wg, "opNumber")
      s1 == postMessage(st, Progress(i1.value, Str(sCombining)))
  IN  IF Len(s1.sceneShapes) > 0
      THEN LET acc == AddShapes(NothingAccumulated(s1), s1.sceneShapes)
               i2 == PostIncrement(i1.wg, "opNumber")
               s2 == postMessage(acc.st, Progress(i2.value, Str(sTriangulating)))
               facesAndEdges == ShapeToMesh(acc.currentShape, ok)
           IN  IF facesAndEdges.threw
               THEN [st |-> s2, wg |-> i2.wg, threw |-> TRUE, response |-> NoResponse,
                     pass |-> PassRecord(acc, s1.sceneShapes, FALSE)]
               ELSE [st |-> postMessage(resetSceneShapes(s2),
                                        Progress(ReadOpNumber(i2.wg), Str(<< >>))),
                     wg |-> i2.wg, threw |-> FALSE, response |-> facesAndEdges.value,
                     pass |-> PassRecord(acc, s1.sceneShapes, TRUE)]
      ELSE LET s2 == consoleError(s1, NoSceneShapes)
           IN  [st |-> postMessage(s2, Progress(ReadOpNumber(i1.wg), Str(<< >>))),
                wg |-> i1.wg, threw |-> FALSE, response |-> JUndefined,
                pass |-> PassRecord(NothingAccumulated(s1), s1.sceneShapes, FALSE)]

\* onmessage for a combineAndRenderShapes request, the limit-th at most: the handler,
\* then the reply; an exception of the handler leaves onmessage uncaught
CombineAndRenderWithin(limit, ok) ==
  /\ Receives
  /\ "combineAndRenderShapes" \in worker.handlers
  /\ worker.other < limit
  /\ Len(timers) < MaxTimers
  /\ LET r == combineAndRenderShapes([Cur EXCEPT !.posted = << >>], workerGlobals, ok)
     IN  /\ Install(IF r.threw THEN r.st
                    ELSE Reply(r.st, "combineAndRenderShapes", r.response))
         /\ workerGlobals' = r.wg
         /\ surfaced' = IF r.threw
                        THEN [kind |-> "handlerError", message |-> << >>,
                              e |-> "kernel", session |-> NoSession]
                        ELSE surfaced
         /\ worker' = [worker EXCEPT !.last = "combineAndRenderShapes",
                                     !.response = r.response, !.other = @ + 1]
  /\ UNCHANGED << pc, caught, evaluated, hashVars, fnVars >>

CombineAndRender(ok) == CombineAndRenderWithin(MaxOther, ok)

sUndefined == <<"u", "n", "d", "e", "f", "i", "n", "e", "d">>

\* the text of the exception e
MessageOf(e) == CASE e = "kernel" -> <<"o", "c">>
                  [] e = "TypeError" -> <<"t", "y", "p", "e">>
                  [] OTHER -> <<"u", "s", "e", "r">>

\* "Line " + line + ": " + op + "() encountered  " + message
ErrorText(line, op, message) ==
  <<"L", "i", "n", "e", " ">> \o line \o <<":", " ">> \o op
  \o <<"(", ")", " ", "e", "n", "c", "o", "u", "n", "t", "e", "r", "e", "d", " ", " ">>
  \o message

\* the message the deferred callback of Evaluate's catch block gives the error
EvaluateErrorText(wg, e) ==
  ErrorText(IF "currentLineNumber" \in DOMAIN wg
              THEN NumberToString(wg["currentLineNumber"]) ELSE sUndefined,
            IF "currentOp" \in DOMAIN wg THEN wg["currentOp"] ELSE sUndefined,
            MessageOf(e))

\* the oldest deferred callback runs; the worker is between requests
RunTimer ==
  /\ pc = "Idle"
  /\ timers # << >>
  /\ timers' = Tail(timers)
  /\ LET cb == Head(timers)
     IN  CASE cb.kind = "log" ->
                /\ posted' = Append(posted, [type |-> "log", payload |-> cb.arg])
                /\ UNCHANGED surfaced
           [] cb.kind = "consoleError" ->
                /\ surfaced' = [kind |-> "consoleError", message |-> cb.arg,
                                e |-> "TypeError", session |-> cb.session]
                /\ UNCHANGED posted
           [] cb.kind = "evalError" ->
                /\ surfaced' = [kind |-> "evalError",
                                message |-> EvaluateErrorText(workerGlobals, cb.arg),
                                e |-> cb.arg, session |-> cb.session]
                /\ UNCHANGED posted
  /\ UNCHANGED << workerGlobals, argCache, GUIState, opNumber, currentLineNumber, currentOp,
                  usedHashes, sceneShapes, heap, pc, caught, fonts,
                  calls, returned, failed, evaluated, worker, hashVars, fnVars >>

\* the preloaded fonts arrive
FontsLoaded ==
  /\ pc = "Idle"
  /\ fonts = {}
  /\ fonts' = {sConsolas}
  /\ UNCHANGED << workerGlobals, argCache, GUIState, opNumber, currentLineNumber, currentOp,
                  usedHashes, sceneShapes, heap, pc, caught, timers, posted, surfaced,
                  calls, returned, failed, evaluated, worker, hashVars, fnVars >>

\* the worker serving Evaluate requests whose user code draws on the whole library
Next ==
  \/ InitOpenCascadeThen
  \/ MessageUnheard
  \/ \E g \in Payloads : EvaluateBegin(g)
  \/ \E ok \in BOOLEAN : UserBox(ok)
  \/ \E ok \in BOOLEAN : UserBoxCentered(ok)
  \/ \E ok \in BOOLEAN : UserSphere(ok)
  \/ \E ok \in BOOLEAN : UserText3D(ok)
  \/ \E shape \in DOMAIN heap, ok \in BOOLEAN : UserTranslate(shape, ok)
  \/ UserCheckbox
  \/ UserThrows
  \/ UserReturns
  \/ FinallyPost
  \/ FinallySweep
  \/ FinallyClear
  \/ RunTimer
  \/ FontsLoaded

Spec == Init /\ [][Next]_vars

\* the worker serving every kind of request, with user code that builds boxes
NextRequests ==
  \/ InitOpenCascadeThen
  \/ MessageUnheard
  \/ \E type \in UnregisteredTypes : DispatchUnregistered(type)
  \/ \E ok \in BOOLEAN : CombineAndRender(ok)
  \/ \E g \in Payloads : EvaluateBegin(g)
  \/ \E ok \in BOOLEAN : UserBox(ok)
  \/ \E shape \in DOMAIN heap, ok \in BOOLEAN : UserTranslateArray(shape, ok)
  \/ UserCheckbox
  \/ UserThrows
  \/ UserReturns
  \/ FinallyPost
  \/ FinallySweep
  \/ FinallyClear
  \/ RunTimer

SpecRequests == Init /\ [][NextRequests]_vars

\* what the worker does without a further message: the finally block of Evaluate runs
\* to its end and the deferred callbacks run; requests are the host's to send
WorkerProgress == FinallyPost \/ FinallySweep \/ FinallyClear \/ RunTimer

SpecRequestsFair == SpecRequests /\ WF_vars(WorkerProgress)

\* the worker serving Evaluate requests whose user code builds boxes and texts while
\* the fonts are still arriving
NextText ==
  \/ InitOpenCascadeThen
  \/ \E g \in Payloads : EvaluateBegin(g)
  \/ \E ok \in BOOLEAN : UserBox(ok)
  \/ \E ok \in BOOLEAN : UserText3DDefault(ok)
  \/ UserCheckbox
  \/ UserReturns
  \/ FinallyPost
  \/ FinallySweep
  \/ FinallyClear
  \/ RunTimer
  \/ FontsLoaded

SpecText == Init /\ [][NextText]_vars

\* the worker serving Evaluate requests whose user code builds, rotates by zero
\* degrees and moves boxes and spheres
NextShortcuts ==
  \/ InitOpenCascadeThen
  \/ \E g \in Payloads : EvaluateBegin(g)
  \/ \E ok \in BOOLEAN : UserBox(ok)
  \/ \E ok \in BOOLEAN : UserSphere(ok)
  \/ \E shape \in DOMAIN heap : UserRotateZero(shape)
  \/ \E shape \in DOMAIN heap, ok \in BOOLEAN : UserTranslate(shape, ok)
  \/ UserCheckbox
  \/ UserReturns
  \/ FinallyPost
  \/ FinallySweep
  \/ FinallyClear
  \/ RunTimer

SpecShortcuts == Init /\ [][NextShortcuts]_vars

-----------------------------------------------------------------------------
(* Sketch on its own: a chain of calls on one sketch, up to the shape Face() returns *)

\* the calls the user code chains after new Sketch(...)
MaxChain == 3

\* what the build makes of the library: "function" is the JavaScript library (function
\* Sketch, methods assigned as function expressions), "class" the class of the
\* TypeScript library kept as a class
Builds == {"function", "class"}

sSketch == <<"S", "k", "e", "t", "c", "h">>
sLineTo == <<"L", "i", "n", "e", "T", "o">>
sEnd == <<"E", "n", "d">>
sFace == <<"F", "a", "c", "e">>
sStartingPoint == <<"s", "t", "a", "r", "t", "i", "n", "g", "P", "o", "i", "n", "t">>
sNextPoint == <<"n", "e", "x", "t", "P", "o", "i", "n", "t">>
sClosed == <<"c", "l", "o", "s", "e", "d">>
sReversed == <<"r", "e", "v", "e", "r", "s", "e", "d">>
sClosedReversed == <<"c", "l", "o", "s", "e", "d", ",", " ", "r", "e", "v", "e", "r", "s", "e", "d">>

\* Sketch.toString()
SketchToString(build) ==
  IF build = "function" THEN FnToString(sSketch)
  ELSE <<"c", "l", "a", "s", "s", " ", "S", "k", "e", "t", "c", "h", " ", "{", " ", "c", "o", "n", "s", "t", "r", "u", "c", "t", "o", "r", "(", ")", " ", "{", "}", " ", "}">>

\* this.LineTo.toString() and the like: in every method the first call is ComputeHash
MethodToString(build, name, params) ==
  IF build = "function" THEN FunctionKw \o <<"(">> \o params \o <<")", " ", "{", "}">>
  ELSE name \o <<"(">> \o params \o <<")", " ", "{", " ", "t", "h", "i", "s", ".", "a", "r", "g", "s", "S", "t", "r", "i", "n", "g", " ", "+", "=", " ", "C", "o", "m", "p", "u", "t", "e", "H", "a", "s", "h", "(", ")", ";", " ", "}">>

\* the points the user code gives, as [x, y]
SketchPoints == { <<0, 0>>, <<1, 0>> }

PointValue(p) == Arr(<< Num(p[1]), Num(p[2]) >>)

\* a gp_Pnt as JSON.stringify sees it
PntValue == Obj(<< <<sPtr, Num(1048576)>> >>)

\* { closed, reversed } with reversed undefined, and closed undefined unless given
EndArgs(closed) ==
  Obj(IF closed THEN << <<sClosed, Bool(TRUE)>> >> ELSE << >>)

\* { reversed }, reversed undefined unless given
FaceArgs(reversed) ==
  Obj(IF reversed THEN << <<sReversed, Bool(TRUE)>> >> ELSE << >>)

\* new Sketch(startingPoint)
SketchConstructor(build, startingPoint) ==
  [ build |-> build, currentIndex |-> 0, faces |-> << >>, wires |-> << >>,
    firstPoint |-> startingPoint, lastPoint |-> startingPoint,
    argsString |-> ComputeHashRaw(SketchToString(build),
                                  Obj(<< <<sStartingPoint, PointValue(startingPoint)>> >>)) ]

\* LineTo(nextPoint); nextValue is the argument as JSON.stringify sees it
SketchLineTo(sk, nextPoint, nextValue) ==
  LET s1 == [sk EXCEPT !.argsString =
                         @ \o ComputeHashRaw(MethodToString(sk.build, sLineTo, sNextPoint),
                                             Obj(<< <<sNextPoint, nextValue>> >>))]
  IN  IF s1.lastPoint = nextPoint THEN s1
      ELSE [s1 EXCEPT !.lastPoint = nextPoint, !.currentIndex = @ + 1]

\* End(closed): the outline is closed with LineTo(this.firstPoint) when it is open,
\* and the wire and the face get the signature of the calls so far
SketchEnd(sk, st, closed) ==
  LET s1 == [sk EXCEPT !.argsString =
                         @ \o ComputeHashRaw(MethodToString(sk.build, sEnd, sClosedReversed),
                                             EndArgs(closed))]
      s2 == IF closed /\ s1.firstPoint # s1.lastPoint
            THEN SketchLineTo(s1, s1.firstPoint, PntValue)
            ELSE s1
      face == NextPtr(st)
      h == stringToHash(s2.argsString)
  IN  [ sk |-> [s2 EXCEPT !.wires = Append(@, h), !.faces = Append(@, face)],
        st |-> SetHash(KernelShape(st), face, h), ret |-> Null, threw |-> FALSE ]

\* Face(reversed): the last face, stamped and pushed to the scene; without a face
\* the assignment of hash throws
SketchFace(sk, st, reversed) ==
  LET s1 == [sk EXCEPT !.argsString =
                         @ \o ComputeHashRaw(MethodToString(sk.build, sFace, sReversed),
                                             FaceArgs(reversed))]
      last == IF s1.faces = << >> THEN Null ELSE s1.faces[Len(s1.faces)]
      st1 == IF reversed /\ last # Null THEN TopoDS_Shape(st, last) ELSE st
      face == IF reversed /\ last # Null THEN NextPtr(st) ELSE last
  IN  IF last = Null THEN [sk |-> s1, st |-> st, ret |-> Null, threw |-> TRUE]
      ELSE [ sk |-> s1,
             st |-> [SetHash(st1, face, stringToHash(s1.argsString))
                       EXCEPT !.sceneShapes = Append(@, face)],
             ret |-> face, threw |-> FALSE ]

sSketchChain == "Sketch"

InitSketch ==
  /\ WorkerInit
  /\ hashInput = NoHashInput /\ hashOutput = << >>
  /\ \E build \in Builds : fnInput = [fn |-> sSketchChain, build |-> build, chain |-> << >>]
  /\ fnOutput = NoFn

\* one call of the chain: fnInput's chain is the calls made so far, fnOutput the
\* sketch, the shape it has returned and whether a call threw
ChainStep(call, r) ==
  /\ fnInput.fn = sSketchChain
  /\ fnInput' = [fnInput EXCEPT !.chain = Append(@, call)]
  /\ fnOutput' = [fn |-> sSketchChain, sk |-> r.sk, ret |-> r.ret, threw |-> r.threw]
  /\ heap' = r.st.heap
  /\ sceneShapes' = r.st.sceneShapes
  /\ UNCHANGED << workerGlobals, argCache, GUIState, opNumber, currentLineNumber, currentOp,
                  usedHashes, pc, caught, timers, posted, surfaced,
                  fonts, calls, returned, failed, evaluated, worker, hashVars >>

\* the chain goes on: the sketch exists, Face() has not ended it and nothing threw
Chaining ==
  /\ fnInput.fn = sSketchChain
  /\ fnOutput # NoFn
  /\ fnOutput.ret = Null
  /\ ~fnOutput.threw
  /\ Len(fnInput.chain) <= MaxChain

NewSketch(startingPoint) ==
  /\ fnOutput = NoFn
  /\ ChainStep([op |-> sSketch, point |-> startingPoint, flag |-> FALSE],
               [sk |-> SketchConstructor(fnInput.build, startingPoint), st |-> Cur,
                ret |-> Null, threw |-> FALSE])

ChainLineTo(nextPoint) ==
  /\ Chaining
  /\ ChainStep([op |-> sLineTo, point |-> nextPoint, flag |-> FALSE],
               [sk |-> SketchLineTo(fnOutput.sk, nextPoint, PointValue(nextPoint)), st |-> Cur,
                ret |-> Null, threw |-> FALSE])

ChainEnd(closed) ==
  /\ Chaining
  /\ ChainStep([op |-> sEnd, point |-> <<0, 0>>, flag |-> closed],
               SketchEnd(fnOutput.sk, Cur, closed))

ChainFace(reversed) ==
  /\ Chaining
  /\ ChainStep([op |-> sFace, point |-> <<0, 0>>, flag |-> reversed],
               SketchFace(fnOutput.sk, Cur, reversed))

NextSketch ==
  \/ \E p \in SketchPoints : NewSketch(p)
  \/ \E p \in SketchPoints : ChainLineTo(p)
  \/ \E closed \in BOOLEAN : ChainEnd(closed)
  \/ \E reversed \in BOOLEAN : ChainFace(reversed)

SpecSketch == InitSketch /\ [][NextSketch]_vars

-----------------------------------------------------------------------------
(* The page's side of the channel: cascadeStudioWorker.onmessage *)

\* the notifications one run of the page receives
MaxHost == 3

\* the types the worker posts
NotificationTypes == {"startupCallback", "Progress", "log", "resetWorking"}

\* what a handler of the page may return
HostResponses == { JUndefined, Bool(FALSE), Bool(TRUE) }

sHostOnmessage == "cascadeStudioWorker.onmessage"

\* onmessage without the test of the type: the entry of the table is called for
\* every notification and its response sent
HostOnmessageUntested(h, handlers, type, response) ==
  [h EXCEPT !.ran = Append(@, type),
            !.sent = IF Truthy(response)
                     THEN Append(@, [type |-> type, payload |-> response]) ELSE @]

\* cascadeStudioWorker.onmessage: h is what the page has done so far, the handlers
\* it has run and the messages it has posted to the worker
HostOnmessage(h, handlers, type, response) ==
  IF type \in handlers
  THEN [h EXCEPT !.ran = Append(@, type),
                 !.sent = IF Truthy(response)
                          THEN Append(@, [type |-> type, payload |-> response]) ELSE @]
  ELSE h

\* the page with the handlers it has registered; seen is history, the types of the
\* notifications received
InitHost ==
  /\ WorkerInit
  /\ hashInput = NoHashInput /\ hashOutput = << >>
  /\ \E handlers \in SUBSET NotificationTypes :
       fnInput = [fn |-> sHostOnmessage, handlers |-> handlers]
  /\ fnOutput = [fn |-> sHostOnmessage, seen |-> << >>, ran |-> << >>, sent |-> << >>]

\* a notification of the worker arrives and the handler, if one runs, returns response
HostReceives(type, response) ==
  /\ fnInput.fn = sHostOnmessage
  /\ Len(fnOutput.seen) < MaxHost
  /\ fnOutput' = [HostOnmessage(fnOutput, fnInput.handlers, type, response)
                    EXCEPT !.seen = Append(@, type)]
  /\ UNCHANGED << workerGlobals, argCache, GUIState, opNumber, currentLineNumber, currentOp,
                  usedHashes, sceneShapes, heap, pc, worker, caught, timers, posted, surfaced,
                  fonts, calls, returned, failed, evaluated, hashVars, fnInput >>

NextHost == \E type \in NotificationTypes, response \in HostResponses : HostReceives(type, response)

SpecHost == InitHost /\ [][NextHost]_vars

-----------------------------------------------------------------------------
(* ComputeHash on its own: arguments objects that differ only in pointers *)

\* pointer values: emscripten heap addresses, and a negative number for the sign
PtrValues == {0, 1048576, -3}

\* { ptr: p, hash: h }: a stamped wrapper, ptr first
PtrFirst(p, h) == Obj(<< <<sPtr, Num(p)>>, <<sHash, Num(h)>> >>)

\* { hash: h, ptr: p }: ptr as the last property
PtrLast(p, h) == Obj(<< <<sHash, Num(h)>>, <<sPtr, Num(p)>> >>)

sShape == <<"s", "h", "a", "p", "e">>

\* arguments objects with pointer fields p and q at several depths and positions
ArgsTemplate(k, p, q) ==
  CASE k = 1 -> TranslateArgs(Up, PtrFirst(p, 5))
    [] k = 2 -> Obj(<< <<sShape, PtrLast(p, 5)>>, <<sPtr, Num(q)>> >>)
    [] k = 3 -> Obj(<< << <<"s", "h", "a", "p", "e", "s">>,
                          Arr(<<PtrFirst(p, 1), PtrLast(q, 2)>>) >>,
                       << <<"k", "e", "e", "p">>, Bool(FALSE) >> >>)
    [] OTHER -> Obj(<< <<sPtr, Num(q)>>,
                       << <<"a">>, Obj(<< << <<"b">>, Obj(<< <<sPtr, Num(p)>> >>) >> >>) >> >>)

ArgsTemplates == 1..4

HashCallees == { FnToString(sTranslate), FnToString(sBox) }

InitHash ==
  /\ WorkerInit
  /\ \E c \in HashCallees, k \in ArgsTemplates, p1 \in PtrValues, q1 \in PtrValues,
        p2 \in PtrValues, q2 \in PtrValues :
        hashInput = [callee |-> c, a |-> ArgsTemplate(k, p1, q1), b |-> ArgsTemplate(k, p2, q2)]
  /\ hashOutput = << >>
  /\ fnInput = NoFn /\ fnOutput = NoFn

\* ComputeHash(callee, args) for each of the two arguments objects
ApplyComputeHash ==
  /\ hashOutput = << >>
  /\ hashOutput' = << ComputeHash(hashInput.callee, hashInput.a),
                      ComputeHash(hashInput.callee, hashInput.b) >>
  /\ UNCHANGED << workerGlobals, argCache, GUIState, opNumber, currentLineNumber, currentOp,
                  usedHashes, sceneShapes, heap, pc, caught, timers, posted, surfaced,
                  fonts, calls, returned, failed, evaluated, worker, hashInput, fnVars >>

NextHash == ApplyComputeHash

SpecHash == InitHash /\ [][NextHash]_vars

-----------------------------------------------------------------------------
(* RemoveFromSceneShapes on its own: accumulators of wrappers that share hash or ptr *)

\* the number of wrappers, and the longest accumulator
MaxScene == 3

SceneHashes == {5, 7}

ScenePtrs == {1, 2}

\* wrappers of shapes: stamped with a signature by CacheOp, or not yet
SceneWrappers ==
  { [hash |-> h, stamped |-> TRUE, tshape |-> 1, ptr |-> q, cls |-> "TopoDS_Shape"] :
    h \in SceneHashes, q \in ScenePtrs }
  \cup { [hash |-> 0, stamped |-> FALSE, tshape |-> 1, ptr |-> q, cls |-> "TopoDS_Shape"] :
         q \in ScenePtrs }

sRemoveFromSceneShapes == "RemoveFromSceneShapes"

\* the wrappers 1..MaxScene, an accumulator of them, and wrapper 1 as the object to remove
InitRemove ==
  /\ workerGlobals = Put(EmptyObj, "usedHashes", EmptyObj)
  /\ argCache = EmptyObj
  /\ GUIState = EmptyObj
  /\ opNumber = 0
  /\ currentLineNumber = 0
  /\ currentOp = << >>
  /\ usedHashes = ImportedUsedHashes
  /\ heap \in [1..MaxScene -> SceneWrappers]
  /\ sceneShapes \in UNION { [1..n -> 1..MaxScene] : n \in 0..MaxScene }
  /\ pc = "Idle"
  /\ worker = ModuleLoaded
  /\ caught = NoException
  /\ timers = << >>
  /\ posted = << >>
  /\ surfaced = << >>
  /\ fonts = {}
  /\ calls = << >>
  /\ returned = {}
  /\ failed = {}
  /\ evaluated = 0
  /\ hashInput = NoHashInput /\ hashOutput = << >>
  /\ fnInput = [fn |-> sRemoveFromSceneShapes, sceneShapes |-> sceneShapes, objectToRemove |-> 1]
  /\ fnOutput = NoFn

\* RemoveFromSceneShapes(objectToRemove)
ApplyRemove ==
  /\ fnInput.fn = sRemoveFromSceneShapes
  /\ fnOutput = NoFn
  /\ Install(RemoveFromSceneShapes(Cur, fnInput.objectToRemove))
  /\ fnOutput' = [fn |-> sRemoveFromSceneShapes]
  /\ UNCHANGED << workerGlobals, pc, worker, caught, surfaced, evaluated, hashVars, fnInput >>

NextRemove == ApplyRemove

SpecRemove == InitRemove /\ [][NextRemove]_vars

-----------------------------------------------------------------------------
(* stringToHash on its own: strings long enough for the hash to wrap *)

\* the longest string
MaxLen == 7

\* the characters of the strings: the lowest and the highest printable code, and a letter
HashChars == {" ", "a", "~"}

sStringToHash == "stringToHash"

InitStringToHash ==
  /\ WorkerInit
  /\ hashInput = NoHashInput /\ hashOutput = << >>
  /\ \E s \in UNION { [1..n -> HashChars] : n \in 0..MaxLen } :
       fnInput = [fn |-> sStringToHash, string |-> s]
  /\ fnOutput = NoFn

\* stringToHash(string)
ApplyStringToHash ==
  /\ fnInput.fn = sStringToHash
  /\ fnOutput = NoFn
  /\ fnOutput' = [fn |-> sStringToHash, hash |-> stringToHash(fnInput.string)]
  /\ UNCHANGED << workerGlobals, argCache, GUIState, opNumber, currentLineNumber, currentOp,
                  usedHashes, sceneShapes, heap, pc, caught, timers, posted, surfaced,
                  fonts, calls, returned, failed, evaluated, worker, hashVars, fnInput >>

NextStringToHash == ApplyStringToHash

SpecStringToHash == InitStringToHash /\ [][NextStringToHash]_vars

-----------------------------------------------------------------------------
(* combineAndRenderShapes on accumulators a session left: shapes that share edges
   and faces, and entries that are not shapes *)

\* the requests for a pass
MaxPasses == 2

\* the objects user code can have pushed: two shapes that share an edge and a face,
\* a null shape, an array, and a handle (it has IsNull but no ShapeType)
SceneObjects ==
  << [hash |-> 5, stamped |-> TRUE, tshape |-> 101, ptr |-> 1, cls |-> "TopoDS_Shape"],
     [hash |-> 7, stamped |-> TRUE, tshape |-> 102, ptr |-> 2, cls |-> "TopoDS_Shape"],
     [hash |-> 0, stamped |-> FALSE, tshape |-> 0, ptr |-> 3, cls |-> "TopoDS_Shape"],
     [hash |-> 0, stamped |-> FALSE, tshape |-> 0, ptr |-> 0, cls |-> "Array", items |-> << >>],
     [hash |-> 0, stamped |-> FALSE, tshape |-> 1, ptr |-> 5, cls |-> "Handle"] >>

sCombineAndRenderShapes == "combineAndRenderShapes"

\* a session has ended whose code pushed up to MaxScene objects, undefined (Null)
\* among them, and called no operation
InitScenes ==
  /\ workerGlobals = Put(Put(Put(EmptyObj, "usedHashes", EmptyObj), "opNumber", Num(0)),
                         "GUIState", EmptyObj)
  /\ argCache = EmptyObj
  /\ GUIState = EmptyObj
  /\ opNumber = 0
  /\ currentLineNumber = 0
  /\ currentOp = << >>
  /\ usedHashes = ImportedUsedHashes
  /\ heap = SceneObjects
  /\ sceneShapes \in UNION { [1..n -> {Null} \cup DOMAIN SceneObjects] : n \in 0..MaxScene }
  /\ pc = "Idle"
  /\ worker = [ModuleLoaded EXCEPT !.oc = TRUE, !.onmessage = TRUE, !.startups = 1,
                                   !.last = "Evaluate", !.response = JUndefined]
  /\ caught = NoException
  /\ timers = << >>
  /\ posted = << ResetWorking >>
  /\ surfaced = << >>
  /\ fonts = {}
  /\ calls = << >>
  /\ returned = {}
  /\ failed = {}
  /\ evaluated = 1
  /\ hashInput = NoHashInput /\ hashOutput = << >>
  /\ fnInput = [fn |-> sCombineAndRenderShapes, sceneShapes |-> sceneShapes]
  /\ fnOutput = NoFn

NextScenes ==
  \/ \E ok \in BOOLEAN : CombineAndRenderWithin(MaxPasses, ok)
  \/ RunTimer

SpecScenes == InitScenes /\ [][NextScenes]_vars

-----------------------------------------------------------------------------
(* Properties *)

\* the signatures CacheOp computed in the current session
Touched == { calls[i].sig : i \in DOMAIN calls }

\* the resetWorking notifications among msgs
CountReset(msgs) == Cardinality({ i \in DOMAIN msgs : msgs[i].type = "resetWorking" })

\* Evaluate is in its finally block, past the notification
Finalizing == pc \in {"FinallySweep", "FinallyClear"}

\* C1: every Evaluate, however the user code ends, finalizes in this order: it posts
\* resetWorking, then deletes every cache entry whose signature is not in the usage
\* set, then empties the usage set.
EvaluateFinalizes ==
  /\ Finalizing => posted # << >> /\ posted[Len(posted)].type = "resetWorking"
  /\ pc = "FinallyClear" => DOMAIN argCache \subseteq DOMAIN usedHashes
  /\ pc = "Idle" /\ evaluated > 0 => DOMAIN usedHashes = {}

\* C2: after a session with caching enabled in which every operation succeeded, the
\* signatures in the cache are exactly those CacheOp touched during the session.
EvictionComplete ==
  ( /\ pc = "Idle" /\ evaluated > 0 /\ caught = NoException
    /\ CachingOn(GUIState)
    /\ \A i \in DOMAIN calls : calls[i].cacheOn )
  => DOMAIN argCache = Touched

\* C3: with caching enabled, the second of two calls of one operation with identical
\* arguments in a session does not compute: it is served from the cache and its
\* result carries the signature the first call's result carries.
SecondCallServedFromCache ==
  \A i, j \in DOMAIN calls :
    ( /\ i < j
      /\ calls[i].op = calls[j].op
      /\ calls[i].args = calls[j].args
      /\ calls[i].cacheOn /\ calls[j].cacheOn )
    => /\ calls[j].hit
       /\ ~calls[j].computed
       /\ calls[j].sig = calls[i].sig
       /\ calls[j].hash = calls[i].hash

SecondCallServedFromCacheWitness ==
  \E i, j \in DOMAIN calls :
    /\ i < j
    /\ calls[i].op = calls[j].op
    /\ calls[i].args = calls[j].args
    /\ calls[i].cacheOn /\ calls[j].cacheOn
    /\ calls[i].computed /\ ~calls[j].computed

\* C4: a failure of the compute function leaves CacheOp as a failure of its caller, and
\* from then on the cache holds no entry for that signature unless a later successful
\* computation of the signature creates it.
FailedComputationNotCached ==
  /\ \A h \in failed : h \notin DOMAIN argCache
  /\ \A i \in DOMAIN calls :
       calls[i].threw => i = Len(calls) /\ pc # "Running" /\ caught # NoException

FailedComputationNotCachedWitness ==
  /\ CachingOn(GUIState)
  /\ pc = "Idle"
  /\ \E i \in DOMAIN calls : calls[i].threw /\ calls[i].cacheOn /\ calls[i].sig \in failed

FinalizedBeforeSurfaced ==
  (surfaced.kind = "evalError" /\ surfaced.session.n = evaluated /\ pc = "Idle")
  => /\ CountReset(posted) >= 1
     /\ DOMAIN argCache \subseteq Touched

\* C7: the surfaced error of a failed session reads "Line <line>: <op>() encountered
\* ..." with the line and the operation name the session's last CacheOp recorded.
SurfacedErrorNamesLastOp ==
  (surfaced.kind = "evalError" /\ surfaced.session.had)
  => surfaced.message = ErrorText(NumberToString(surfaced.session.line),
                                  surfaced.session.op, MessageOf(surfaced.e))

\* C8: arguments objects that differ only in the values of their ptr fields, at any
\* depth, get the same signature from ComputeHash.
ComputeHashIgnoresPtr == hashOutput # << >> => hashOutput[1] = hashOutput[2]

ComputeHashIgnoresPtrWitness ==
  /\ hashOutput # << >>
  /\ hashInput.a # hashInput.b
  /\ hashOutput[1] = hashOutput[2]

\* C9: every CacheOp invocation (hit, miss, caching disabled, compute failing) has its
\* signature in the usage set when it consults the cache, and the sweep of a session
\* keeps every entry the session hit.
UsageRecordedBeforeLookup ==
  [][ /\ \A i \in DOMAIN calls' : calls'[i].usedAtCheck
      /\ pc = "FinallySweep" =>
           \A i \in DOMAIN calls :
             (calls[i].hit /\ calls[i].sig \in DOMAIN argCache)
             => calls[i].sig \in DOMAIN argCache' ]_vars

UsageRecordedBeforeLookupWitness ==
  /\ pc = "FinallyClear"
  /\ \E i \in DOMAIN calls :
       /\ calls[i].hit /\ calls[i].sig \in DOMAIN argCache
       /\ \A j \in DOMAIN calls : calls[j].sig = calls[i].sig => ~calls[j].computed

\* C10: the wrapper a cache entry holds is never a wrapper CacheOp returned or the scene
\* holds; a hit returns another wrapper than the entry, stamped with the entry's
\* signature.
CacheEntriesAreSeparateInstances ==
  /\ \A h \in DOMAIN argCache : argCache[h] \notin returned \cup Range(sceneShapes)
  /\ \A i \in DOMAIN calls :
       calls[i].hit => /\ calls[i].ret # calls[i].entry
                       /\ calls[i].hash = heap[calls[i].entry].hash
                       /\ calls[i].hash = calls[i].sig

CacheEntriesAreSeparateInstancesWitness ==
  /\ \E i \in DOMAIN calls : calls[i].hit /\ calls[i].ret \in Range(sceneShapes)
  /\ \E i \in DOMAIN calls : calls[i].computed /\ ~calls[i].threw /\ calls[i].sig \in DOMAIN argCache

SessionReadsPayloadGUIState ==
  /\ (pc = "Running" /\ posted = << >>) => GUIState = workerGlobals["GUIState"]
  /\ (pc # "Idle" /\ \A k \in DOMAIN posted : posted[k].type # "addCheckbox") =>
       \A i \in DOMAIN calls : calls[i].cacheOn = CachingOn(workerGlobals["GUIState"])

\* the messages of the given type among msgs
OfType(msgs, type) == { i \in DOMAIN msgs : msgs[i].type = type }

\* C13: a message whose type has no registered handler is ignored by the worker's
\* dispatcher: no error is raised, no reply is posted, and the cache, the accumulator
\* and the usage set stay as they are.
UnregisteredMessageIgnored ==
  [][ (worker'.last \in UnregisteredTypes /\ worker'.other # worker.other) =>
        /\ surfaced' = surfaced
        /\ posted' = << >>
        /\ UNCHANGED << argCache, usedHashes, sceneShapes, workerGlobals >> ]_vars

\* C14: for a message of a registered type the dispatcher calls the handler once and
\* posts one reply of the same type carrying the handler's return value when the
\* handler returned a value, and no reply when it returned nothing, as Evaluate does.
DispatcherRepliesWithReturnValue ==
  (pc = "Idle" /\ worker.last \in worker.handlers) =>
    LET replies == OfType(posted, worker.last)
    IN  /\ IF worker.response.t \notin {"none", "undefined"}
           THEN /\ Cardinality(replies) = 1
                /\ \A i \in replies : posted[i].payload = worker.response
           ELSE replies = {}
        /\ worker.last = "Evaluate" =>
             worker.response.t = "undefined" /\ CountReset(posted) >= 1
        /\ worker.last = "combineAndRenderShapes" =>
             Cardinality({ i \in OfType(posted, "Progress") :
                             /\ posted[i].payload.opType.t = "str"
                             /\ posted[i].payload.opType.s = sCombining }) = 1

DispatcherRepliesWithReturnValueWitness ==
  /\ pc = "Idle"
  /\ worker.last = "combineAndRenderShapes"
  /\ worker.response.t = "arr"
  /\ evaluated > 0
  /\ \E i \in DOMAIN posted :
       posted[i].type = "combineAndRenderShapes" /\ posted[i].payload = worker.response

\* C15: startupCallback is posted at most once, when the kernel has been stored, the
\* dispatcher installed and the Evaluate and combineAndRenderShapes handlers
\* registered; no request is processed before it.
StartupCallbackOnceWhenReady ==
  /\ worker.startups <= 1
  /\ Cardinality(OfType(posted, "startupCallback")) <= worker.startups
  /\ worker.startups = 1 =>
       /\ worker.oc /\ worker.onmessage
       /\ {"Evaluate", "combineAndRenderShapes"} \subseteq worker.handlers
  /\ (worker.last # "none" \/ evaluated > 0 \/ pc # "Idle") => worker.startups = 1

StartupCallbackOnceWhenReadyWitness ==
  /\ worker.startups = 1
  /\ worker.last = "Evaluate"
  /\ pc = "Idle"
  /\ OfType(posted, "startupCallback") = {}

\* the Progress messages of a session that name an operation
NamedProgress == { i \in OfType(posted, "Progress") : posted[i].payload.opType.t = "str" }

\* the Progress messages of a session that name no operation
DoneProgress == { i \in OfType(posted, "Progress") : posted[i].payload.opType.t # "str" }

\* C16: every CacheOp invocation of a session, hit or miss and also when the compute
\* function fails, advances the operation counter by one and posts a Progress message
\* naming the operation before and a Progress message after.
ProgressAroundEveryOp ==
  pc # "Idle" =>
    /\ Cardinality(NamedProgress) = Len(calls)
    /\ Cardinality(DoneProgress) = Len(calls)
    /\ \A i \in NamedProgress :
         /\ posted[i].payload.opNumber.n < opNumber
         /\ \A j \in NamedProgress :
              i < j => posted[i].payload.opNumber.n < posted[j].payload.opNumber.n
    /\ \A i \in DoneProgress : \E j \in NamedProgress :
         j < i /\ posted[i].payload.opNumber.n = posted[j].payload.opNumber.n + 1

\* the last Progress message among msgs, 0 if there is none
LastProgress(msgs) ==
  IF OfType(msgs, "Progress") = {} THEN 0
  ELSE CHOOSE i \in OfType(msgs, "Progress") : \A j \in OfType(msgs, "Progress") : j <= i

\* C17 as stated: every Progress message that marks the completion of a phase, the one
\* CacheOp posts after an operation and the last one of combineAndRenderShapes,
\* carries the empty string as opType.
CompletionProgressCarriesEmptyString ==
  /\ pc # "Idle" =>
       \A i \in DOMAIN calls :
         ~calls[i].threw =>
           /\ posted[calls[i].doneAt].type = "Progress"
           /\ posted[calls[i].doneAt].payload.opType.t = "str"
           /\ posted[calls[i].doneAt].payload.opType.s = << >>
  /\ (pc = "Idle" /\ worker.last = "combineAndRenderShapes" /\ worker.response.t # "none") =>
       /\ LastProgress(posted) # 0
       /\ posted[LastProgress(posted)].payload.opType.t = "str"
       /\ posted[LastProgress(posted)].payload.opType.s = << >>

\* C17 as amended: a Progress message that marks the completion of a phase names no
\* operation: the one CacheOp posts last, when the operation returns, carries null as
\* opType, and the last one of combineAndRenderShapes carries the empty string.
CompletionProgressNamesNoOperation ==
  /\ pc # "Idle" =>
       \A i \in DOMAIN calls :
         ~calls[i].threw =>
           /\ posted[calls[i].doneAt].type = "Progress"
           /\ posted[calls[i].doneAt].payload.opType.t = "null"
  /\ (pc = "Idle" /\ worker.last = "combineAndRenderShapes" /\ worker.response.t # "none") =>
       /\ LastProgress(posted) # 0
       /\ posted[LastProgress(posted)].payload.opType.t = "str"
       /\ posted[LastProgress(posted)].payload.opType.s = << >>

CompletionProgressNamesNoOperationWitness ==
  /\ pc # "Idle"
  /\ \E i \in DOMAIN calls : calls[i].hit /\ calls[i].doneAt > 0
  /\ \E i \in DOMAIN calls : calls[i].computed /\ ~calls[i].threw

\* C18: at the start of every session the scene accumulator is empty, whatever the
\* previous session did.
SceneEmptyAtSessionStart ==
  (pc = "Running" /\ posted = << >> /\ calls = << >>) => sceneShapes = << >>

\* C19: combineAndRenderShapes empties the scene accumulator exactly when its pass
\* succeeds, that is when the tessellation is returned; when the pass fails, the
\* accumulator holds the same shapes in the same order as before the request.
AccumulatorEmptiedIffPassSucceeds ==
  [][ worker'.last = "combineAndRenderShapes" /\ worker'.other # worker.other =>
        IF OfType(posted', "combineAndRenderShapes") # {}
        THEN sceneShapes # << >> /\ sceneShapes' = << >>
        ELSE sceneShapes' = sceneShapes ]_vars

AccumulatorEmptiedIffPassSucceedsWitness ==
  /\ worker.last = "combineAndRenderShapes"
  /\ surfaced.kind = "handlerError"
  /\ worker.response.t = "none"
  /\ Len(sceneShapes) >= 2

\* the number of times x occurs in seq
Count(seq, x) == Cardinality({ i \in DOMAIN seq : seq[i] = x })

\* C20: when a top-level modeling operation has returned, on a hit or a miss and also
\* when its compute function calls other modeling operations, its result occurs
\* exactly once in the scene accumulator.
OperationResultOnceInScene ==
  (pc = "Running" /\ calls # << >> /\ ~calls[Len(calls)].threw) =>
    Count(sceneShapes, calls[Len(calls)].ret) = 1


\* C21: when a modeling operation that takes shape inputs returns, called without its
\* keep flag, none of its input shapes is in the scene accumulator any more; this
\* includes the shapes handed to Translate in an array.
ShapeInputsLeaveScene ==
  [][\A shape \in DOMAIN heap, ok \in BOOLEAN :
       UserTranslateArray(shape, ok) /\ pc' = "Running" => shape \notin Range(sceneShapes')]_vars

\* the signature of a wrapper: its hash, or undefined before CacheOp has stamped it
SignatureOf(w) == [stamped |-> w.stamped, hash |-> IF w.stamped THEN w.hash ELSE 0]

\* the element at position i of the accumulator before the call has the signature
\* and the kernel handle of the object to remove
MatchesRemoved(i) ==
  /\ SignatureOf(heap[fnInput.sceneShapes[i]]) = SignatureOf(heap[fnInput.objectToRemove])
  /\ heap[fnInput.sceneShapes[i]].ptr = heap[fnInput.objectToRemove].ptr

\* the positions of the accumulator before the call whose elements are to stay
Staying == { i \in DOMAIN fnInput.sceneShapes : ~MatchesRemoved(i) }

\* C22: RemoveFromSceneShapes(x) removes exactly the elements whose signature equals
\* x's and whose kernel handle equals x's: every other element, one that shares only
\* the signature or only the handle included, stays, and the elements that stay keep
\* their relative order.
RemovesExactlyMatching ==
  fnOutput.fn = sRemoveFromSceneShapes =>
    /\ Len(sceneShapes) = Cardinality(Staying)
    /\ \A i \in Staying :
         sceneShapes[Cardinality({ k \in Staying : k <= i })] = fnInput.sceneShapes[i]

RemovesExactlyMatchingWitness ==
  /\ fnOutput.fn = sRemoveFromSceneShapes
  /\ Len(fnInput.sceneShapes) = 3
  /\ MatchesRemoved(2)
  /\ SignatureOf(heap[fnInput.sceneShapes[1]]) = SignatureOf(heap[fnInput.objectToRemove])
  /\ heap[fnInput.sceneShapes[1]].ptr # heap[fnInput.objectToRemove].ptr
  /\ SignatureOf(heap[fnInput.sceneShapes[3]]) # SignatureOf(heap[fnInput.objectToRemove])
  /\ heap[fnInput.sceneShapes[3]].ptr = heap[fnInput.objectToRemove].ptr
  /\ sceneShapes = << fnInput.sceneShapes[1], fnInput.sceneShapes[3] >>

\* this step is a pass of combineAndRenderShapes
PassStep == worker'.last = "combineAndRenderShapes" /\ worker'.other # worker.other

\* what the pass that starts in this state accumulates
ThisPass == combineAndRenderShapes([Cur EXCEPT !.posted = << >>], workerGlobals, TRUE).pass

\* the first position of e in visits
FirstVisit(visits, e) ==
  CHOOSE i \in DOMAIN visits : visits[i] = e /\ \A k \in 1..(i - 1) : visits[k] # e

\* the index e has in the first of these shapes that has it: the number of
\* distinct edges the explorer visits on that shape before e
FirstSeenIndex(shapes, e) ==
  LET Has(j) == e \in Range(EdgeVisits(heap[shapes[j]].tshape))
      first == CHOOSE j \in DOMAIN shapes : Has(j) /\ \A k \in 1..(j - 1) : ~Has(k)
      visits == EdgeVisits(heap[shapes[first]].tshape)
  IN  Cardinality({ visits[k] : k \in 1..(FirstVisit(visits, e) - 1) })

\* C23: the edge index map a pass builds maps each edge identity to the index at
\* its first occurrence: an identity that an earlier shape has indexed keeps that
\* index when a later shape contains the same identity.
EdgeIndexIsFirstSeen ==
  [][PassStep => \A e \in DOMAIN ThisPass.edges :
                   ThisPass.edges[e] = FirstSeenIndex(ThisPass.currentShape, e)]_vars

\* an entry of the accumulator that is a shape of the kernel, and not the null shape
IsValidShape(el) == el # Null /\ heap[el].cls = "TopoDS_Shape" /\ heap[el].tshape # 0

\* the valid shapes of the accumulator, in its order
ValidShapes == SelectSeq(sceneShapes, IsValidShape)

\* C24: over an accumulator that mixes valid shapes with malformed entries (null,
\* the null shape, objects that are not shapes) a pass reports every malformed entry
\* and skips it: the container gets exactly the valid shapes in accumulator order,
\* the index maps hold the edges and faces of the valid shapes only, and the mesh of
\* the container is returned to the caller.
MalformedEntriesSkipped ==
  [][(PassStep /\ sceneShapes # << >>) =>
       /\ ThisPass.currentShape = ValidShapes
       /\ DOMAIN ThisPass.edges =
            UNION { Range(EdgeVisits(heap[v].tshape)) : v \in Range(ValidShapes) }
       /\ DOMAIN ThisPass.faces =
            UNION { Range(FaceVisits(heap[v].tshape)) : v \in Range(ValidShapes) }
       /\ Len(timers') - Len(timers) >= Len(sceneShapes) - Len(ValidShapes)
       /\ Cardinality(OfType(posted', "resetWorking"))
            >= Len(sceneShapes) - Len(ValidShapes)
       /\ ThisPass.completed
       /\ worker'.response.t # "none" =>
            /\ worker'.response = ShapeToMesh(ValidShapes, TRUE).value
            /\ \E m \in OfType(posted', "combineAndRenderShapes") :
                 posted'[m].payload = worker'.response]_vars

\* a pass has returned the mesh of the one valid shape of an accumulator that also
\* held undefined and an array
MalformedEntriesSkippedWitness ==
  /\ fnInput.fn = sCombineAndRenderShapes
  /\ fnInput.sceneShapes = << Null, 4, 1 >>
  /\ worker.other = 1
  /\ worker.last = "combineAndRenderShapes"
  /\ worker.response = ShapeToMesh(<< 1 >>, TRUE).value
  /\ Len(timers) = 2
  /\ \E m \in OfType(posted, "combineAndRenderShapes") :
       posted[m].payload = worker.response

\* C25: a pass requested while the accumulator is empty reports a diagnostic and
\* yields an explicit no-shapes result to the caller, and raises no error, neither
\* in the handler nor later.
EmptyPassYieldsNoShapesResult ==
  [][(PassStep /\ sceneShapes = << >>) =>
       /\ OfType(posted', "resetWorking") # {}
       /\ OfType(posted', "combineAndRenderShapes") # {}
       /\ surfaced' = surfaced
       /\ \A t \in DOMAIN timers' : timers'[t].kind # "consoleError"]_vars

\* the session before this pass ran one operation twice with equal arguments, and
\* caching was enabled: by the request's GUI state or by the user code's checkbox
SameOperationTwiceCached ==
  /\ Len(calls) = 2
  /\ calls[1].op = calls[2].op /\ calls[1].args = calls[2].args
  /\ ~calls[1].threw /\ ~calls[2].threw
  /\ \/ "GUIState" \in DOMAIN workerGlobals /\ CachingOn(workerGlobals["GUIState"])
     \/ calls[1].cacheOn

\* C26: end to end, with caching enabled: a session that runs the same primitive
\* operation twice with equal arguments makes one kernel construction call and leaves
\* two accumulator entries with the same signature and different handles, and the
\* pass that follows builds an edge index map with one entry for each edge of a single
\* copy and a face index map with one entry for each face (12 and 6 for a box).
SameOperationTwiceSharesTopology ==
  [][(PassStep /\ SameOperationTwiceCached) =>
       /\ Cardinality({ i \in DOMAIN calls : calls[i].computed }) = 1
       /\ Len(sceneShapes) = 2
       /\ heap[sceneShapes[1]].hash = heap[sceneShapes[2]].hash
       /\ heap[sceneShapes[1]].ptr # heap[sceneShapes[2]].ptr
       /\ Cardinality(DOMAIN ThisPass.edges) = BoxEdgeCount
       /\ Cardinality(DOMAIN ThisPass.faces) = BoxFaceCount]_vars

\* the same, for a session whose user code enabled caching itself, after a start
\* with an empty accumulator and an empty cache
SameOperationTwiceFromCheckbox ==
  [][(PassStep /\ SameOperationTwiceCached /\ calls[1].cacheOn
        /\ calls[1].entry = Null /\ Len(sceneShapes) = 2) =>
       /\ Cardinality({ i \in DOMAIN calls : calls[i].computed }) = 1
       /\ heap[sceneShapes[1]].hash = heap[sceneShapes[2]].hash
       /\ heap[sceneShapes[1]].ptr # heap[sceneShapes[2]].ptr
       /\ Cardinality(DOMAIN ThisPass.edges) = BoxEdgeCount
       /\ Cardinality(DOMAIN ThisPass.faces) = BoxFaceCount]_vars

\* C27: accumulator idempotence: a pass requested right after a pass, with no
\* modeling operation in between, builds the same edge index map and the same face
\* index map as the pass before it.
PassTwiceSameMaps ==
  [][PassStep => /\ ThisPass'.edges = ThisPass.edges
                 /\ ThisPass'.faces = ThisPass.faces]_vars

\* this step is onmessage calling a handler, or failing to find one
HandlerStarts == evaluated' # evaluated \/ worker'.other # worker.other

Times31Plus(w, c) ==
  LET lo == 31 * w[2] + c
  IN  << (31 * w[1] + lo \div Limb) % Limb, lo % Limb >>

\* the fold h := 31 * h + code over the characters of s, from 0, modulo 2^32
RECURSIVE Fold31(_)
Fold31(s) ==
  IF s = << >> THEN <<0, 0>>
  ELSE Times31Plus(Fold31(SubSeq(s, 1, Len(s) - 1)), charCodeAt(s[Len(s)]))

\* the number in -2^31 .. 2^31 - 1 that is congruent to <<hi, lo>> modulo 2^32
Signed32(w) ==
  IF w[1] < 32768 THEN w[1] * Limb + w[2]
  ELSE -((Limb - 1 - w[1]) * Limb + (Limb - w[2]))

\* C29: stringToHash(s) is the fold h := 31 * h + charCode over the characters of s,
\* started at 0 and truncated to a signed 32-bit integer after each character; the
\* result lies in -2^31 .. 2^31 - 1, and the empty string hashes to 0.
StringToHashIsFold31 ==
  fnOutput.fn = sStringToHash =>
    /\ fnOutput.hash = Signed32(Fold31(fnInput.string))
    /\ fnOutput.hash >= -2147483647 - 1
    /\ fnOutput.hash <= 2147483647
    /\ fnInput.string = << >> => fnOutput.hash = 0

\* the hash of a string of seven characters has wrapped to a negative number
StringToHashIsFold31Witness ==
  /\ fnOutput.fn = sStringToHash
  /\ Len(fnInput.string) = 7
  /\ fnOutput.hash < 0

\* the first Progress message among msgs, 0 when there is none
FirstProgress(msgs) ==
  IF OfType(msgs, "Progress") = {} THEN 0
  ELSE CHOOSE i \in OfType(msgs, "Progress") : \A j \in OfType(msgs, "Progress") : i <= j

\* the operation counter the Progress message i of posted carries is the number n
CarriesOpNumber(i, n) ==
  posted[i].payload.opNumber.t = "num" /\ posted[i].payload.opNumber.n = n

\* C30: within one session the operation counter that the Progress messages carry
\* starts at 0 for the first operation and never decreases: Evaluate resets the
\* counter that CacheOp reads and advances, and the Progress messages of the pass
\* that follows the session continue from that counter.
OpCounterRunsThroughSession ==
  /\ (evaluated > 0 /\ worker.last = "Evaluate" /\ FirstProgress(posted) # 0) =>
       /\ CarriesOpNumber(FirstProgress(posted), 0)
       /\ \A i, j \in OfType(posted, "Progress") :
            i < j => /\ posted[i].payload.opNumber.t = "num"
                     /\ posted[j].payload.opNumber.t = "num"
                     /\ posted[i].payload.opNumber.n <= posted[j].payload.opNumber.n
  /\ (evaluated > 0 /\ worker.last = "combineAndRenderShapes") =>
       CarriesOpNumber(FirstProgress(posted), opNumber)

\* C31: while a session is Running no step removes or replaces a cache entry: every
\* signature the cache holds before a step of the user code is still there after it,
\* with the same entry (the cache is a map, so it holds one entry per signature)
CacheEntriesSurviveOperations ==
  [][pc = "Running" =>
       \A h \in DOMAIN argCache : h \in DOMAIN argCache' /\ argCache'[h] = argCache[h]]_vars

\* C32: every shape a modeling operation has returned, and so pushed to the scene,
\* carries a signature, the shapes of the paths that bypass CacheOp included
ReturnedShapesCarrySignature ==
  \A i \in DOMAIN sceneShapes : heap[sceneShapes[i]].stamped

\* C33: a session that completes without an uncaught failure leads to a pass of
\* combineAndRenderShapes
SuccessfulSessionTriggersPass ==
  (pc = "FinallyClear" /\ caught = NoException) ~> (worker.last = "combineAndRenderShapes")

\* the faces of these shapes in the order a pass visits them
RECURSIVE FaceVisitsOfAll(_)
FaceVisitsOfAll(shapes) ==
  IF shapes = << >> THEN << >>
  ELSE FaceVisits(heap[Head(shapes)].tshape) \o FaceVisitsOfAll(Tail(shapes))

\* the index f has at its first visit, counted from 0 over the whole batch
FirstSeenInBatch(shapes, f) == FirstVisit(FaceVisitsOfAll(shapes), f) - 1

\* the index f has at its first visit, counted from 0 on the shape that is visited
FirstSeenOnShape(shapes, f) ==
  LET Has(j) == f \in Range(FaceVisits(heap[shapes[j]].tshape))
      first == CHOOSE j \in DOMAIN shapes : Has(j) /\ \A k \in 1..(j - 1) : ~Has(k)
  IN  FirstVisit(FaceVisits(heap[shapes[first]].tshape), f) - 1

\* C34: the face index map a pass builds has one key for each face identity of the
\* valid shapes, and the value of a key is the index the face had when it was first
\* seen, whether indices are counted over the batch or on each shape
FaceIndexIsFirstSeen ==
  [][PassStep =>
       /\ DOMAIN ThisPass.faces =
            UNION { Range(FaceVisits(heap[v].tshape)) : v \in Range(ValidShapes) }
       /\ \/ \A f \in DOMAIN ThisPass.faces :
                ThisPass.faces[f] = FirstSeenInBatch(ThisPass.currentShape, f)
          \/ \A f \in DOMAIN ThisPass.faces :
                ThisPass.faces[f] = FirstSeenOnShape(ThisPass.currentShape, f)]_vars

\* the keys alone (not a claim: the part of the above that holds)
FaceKeysAreFaceIdentities ==
  [][PassStep =>
       DOMAIN ThisPass.faces =
         UNION { Range(FaceVisits(heap[v].tshape)) : v \in Range(ValidShapes) }]_vars

\* the arguments object of a call of the chain
ArgsOfCall(c) ==
  CASE c.op = sSketch -> Obj(<< <<sStartingPoint, PointValue(c.point)>> >>)
    [] c.op = sLineTo ->
         Obj(<< <<sNextPoint, IF c.flag THEN PntValue ELSE PointValue(c.point)>> >>)
    [] c.op = sEnd -> EndArgs(c.flag)
    [] OTHER -> FaceArgs(c.flag)

\* the callee ComputeHash is given for a call of the chain
CalleeOfCall(build, c) ==
  CASE c.op = sSketch -> SketchToString(build)
    [] c.op = sLineTo -> MethodToString(build, sLineTo, sNextPoint)
    [] c.op = sEnd -> MethodToString(build, sEnd, sClosedReversed)
    [] OTHER -> MethodToString(build, sFace, sReversed)

\* the raw strings of these calls, one after the other
RECURSIVE ConcatRaw(_, _)
ConcatRaw(build, cs) ==
  IF cs = << >> THEN << >>
  ELSE ComputeHashRaw(CalleeOfCall(build, Head(cs)), ArgsOfCall(Head(cs)))
       \o ConcatRaw(build, Tail(cs))

\* the calls made on the sketch: the chained calls, and after an End(true) that finds
\* the outline open the LineTo(firstPoint) that End makes itself
RECURSIVE MadeCalls(_, _, _)
MadeCalls(chain, first, last) ==
  IF chain = << >> THEN << >>
  ELSE LET c == Head(chain)
       IN  CASE c.op = sSketch -> <<c>> \o MadeCalls(Tail(chain), c.point, c.point)
             [] c.op = sLineTo -> <<c>> \o MadeCalls(Tail(chain), first, c.point)
             [] c.op = sEnd /\ c.flag /\ first # last ->
                  <<c, [op |-> sLineTo, point |-> first, flag |-> TRUE]>>
                  \o MadeCalls(Tail(chain), first, first)
             [] OTHER -> <<c>> \o MadeCalls(Tail(chain), first, last)

\* Face() has returned a shape
FaceReturned == fnInput.fn = sSketchChain /\ fnOutput # NoFn /\ fnOutput.ret # Null

\* C35 as stated: the raw string of every call is the name of the operation followed
\* by its sanitized arguments, and the signature of the shape Face() returns is
\* stringToHash of the raw strings of the constructor and of the chained calls
SketchSignatureOfChainedCalls ==
  fnInput.fn = sSketchChain =>
    /\ \A i \in DOMAIN fnInput.chain :
         ComputeHashRaw(CalleeOfCall(fnInput.build, fnInput.chain[i]), ArgsOfCall(fnInput.chain[i]))
         = fnInput.chain[i].op \o SanitizeArgs(ArgsOfCall(fnInput.chain[i]))
    /\ FaceReturned =>
         heap[fnOutput.ret].hash = stringToHash(ConcatRaw(fnInput.build, fnInput.chain))

\* what the code does instead: the raw string of a call is getCalleeName of the
\* callee followed by the sanitized arguments, and hashing it gives the signature;
\* in both builds the name is the operation's name for the constructor kept as a
\* declared function and for no method of Sketch; the
\* shape Face() returns is stamped with stringToHash of the raw strings, in call
\* order, of every call made on the sketch, End's own LineTo included
SketchSignatureOfMadeCalls ==
  fnInput.fn = sSketchChain =>
    /\ \A i \in DOMAIN fnInput.chain :
         LET c == fnInput.chain[i]
             callee == CalleeOfCall(fnInput.build, c)
         IN  /\ ComputeHash(callee, ArgsOfCall(c))
                  = stringToHash(getCalleeName(callee) \o SanitizeArgs(ArgsOfCall(c)))
             /\ getCalleeName(callee) = c.op <=> (c.op = sSketch /\ fnInput.build = "function")
    /\ FaceReturned =>
         /\ heap[fnOutput.ret].stamped
         /\ heap[fnOutput.ret].hash
              = stringToHash(ConcatRaw(fnInput.build,
                                       MadeCalls(fnInput.chain, <<0, 0>>, <<0, 0>>)))
         /\ sceneShapes = << fnOutput.ret >>

RECURSIVE TypesWithHandler(_, _)
\* the notifications among seen whose type has a handler, in order
TypesWithHandler(seen, handlers) ==
  IF seen = << >> THEN << >>
  ELSE IF Head(seen) \in handlers
       THEN << Head(seen) >> \o TypesWithHandler(Tail(seen), handlers)
       ELSE TypesWithHandler(Tail(seen), handlers)

\* C36: on the page a notification whose type has no registered handler is dropped:
\* the handlers that have run are exactly the notifications with a registered type,
\* in the order received (so none ran for the others and the later ones were still
\* dispatched), and every message posted back answers a notification with a
\* registered type
HostDropsUnregistered ==
  fnInput.fn = sHostOnmessage =>
    /\ fnOutput.ran = TypesWithHandler(fnOutput.seen, fnInput.handlers)
    /\ Len(fnOutput.sent) <= Len(fnOutput.ran)
    /\ \A i \in DOMAIN fnOutput.sent : fnOutput.sent[i].type \in fnInput.handlers

\* a notification without a handler was received, then one with a handler whose
\* response was posted back
HostDropsUnregisteredWitness ==
  /\ fnInput.fn = sHostOnmessage
  /\ Len(fnOutput.seen) = 2
  /\ fnOutput.seen[1] \notin fnInput.handlers
  /\ fnOutput.ran = << fnOutput.seen[2] >>
  /\ Len(fnOutput.sent) = 1

\* the scene accumulator as the ordered list of the signatures of its shapes
SceneSignatures(st) ==
  [i \in DOMAIN st.sceneShapes |-> SignatureOf(st.heap[st.sceneShapes[i]])]

\* Box(2, 2, 2, true) from the entry of CacheOp on, served from the cache
BoxCenteredServed(en) == PushResult(CacheOpHit(en))

\* the same call computed, the kernel succeeding
BoxCenteredComputed(en) ==
  PushResult(CacheOpMiss(en, BoxMiss(en.st, 2, 2, 2, TRUE, en.line, TRUE)))

\* C37: cache transparency: wherever the session stands, an operation that is served
\* from the cache leaves the scene accumulator, as the ordered list of signatures
\* with multiplicities, as it would be left had the operation been computed; here
\* for Box with centered = true.
CacheTransparentForBoxCentered ==
  (pc = "Running" /\ NextPtr(Cur) <= MaxPtr + 1) =>
    LET en == CacheOpEnter(Cur, FnToString(sBox), BoxArgs(2, 2, 2, TRUE), Line)
    IN  IsHit(en) =>
          SceneSignatures(BoxCenteredServed(en).st) = SceneSignatures(BoxCenteredComputed(en).st)

\* C38: the error surfaced for a failed session carries the operation name and the
\* line of that session also when another Evaluate has been dispatched between the
\* end of the failed one and the deferred callback that annotates the error.
SurfacedErrorOfEarlierSession ==
  [][(timers # << >> /\ timers' = Tail(timers) /\ pc = "Idle" /\ pc' = "Idle"
      /\ Head(timers).kind = "evalError" /\ Head(timers).session.had
      /\ Head(timers).session.n < evaluated)
     => surfaced'.message = ErrorText(NumberToString(Head(timers).session.line),
                                      Head(timers).session.op, MessageOf(Head(timers).arg))]_vars

\* the same for a callback that read the bindings CacheOp writes, currentLineNumber
\* and currentOp, when it runs
BindingsKeepFailedSession ==
  [][(timers # << >> /\ timers' = Tail(timers) /\ pc = "Idle" /\ pc' = "Idle"
      /\ Head(timers).kind = "evalError" /\ Head(timers).session.had
      /\ Head(timers).session.n < evaluated)
     => /\ currentLineNumber = Head(timers).session.line
        /\ currentOp = Head(timers).session.op]_vars

\* C39: a combineAndRenderShapes request leaves the operation cache and the usage
\* set unchanged on every path: shapes present, every entry malformed, empty
\* accumulator, tessellation failing.
PassLeavesCacheAndUsage ==
  [][PassStep => /\ argCache' = argCache
                 /\ usedHashes' = usedHashes
                 /\ Get(workerGlobals', "argCache") = Get(workerGlobals, "argCache")
                 /\ Get(workerGlobals', "usedHashes") = Get(workerGlobals, "usedHashes")
                 /\ \A h \in DOMAIN argCache : heap'[argCache[h]] = heap[argCache[h]]]_vars

\* a pass has rendered shapes while the cache holds an entry and the usage set a
\* signature
PassLeavesCacheAndUsageWitness ==
  /\ pc = "Idle"
  /\ worker.last = "combineAndRenderShapes"
  /\ Truthy(worker.response)
  /\ DOMAIN argCache # {}
  /\ DOMAIN usedHashes # {}

\* the other paths with the cache and the usage set not empty: the accumulator was
\* empty, and the tessellation failed
PassOnEmptySceneWithCache ==
  /\ pc = "Idle" /\ worker.last = "combineAndRenderShapes" /\ worker.response = JUndefined
  /\ DOMAIN argCache # {} /\ DOMAIN usedHashes # {}

PassFailedWithCache ==
  /\ pc = "Idle" /\ worker.last = "combineAndRenderShapes" /\ worker.response = NoResponse
  /\ DOMAIN argCache # {} /\ DOMAIN usedHashes # {}

=============================================================================
